---- MODULE Spec2Model ----
(***************************************************************************)
(* Model of src/app.py: MacroRecorder (event capture), MacroPlayer (timed  *)
(* replay with a background worker thread and a hotkey listener) and the   *)
(* request threads that call them.  Every read or write of a shared        *)
(* attribute is one step of the thread that performs it.                   *)
(***************************************************************************)
EXTENDS Integers, Sequences, FiniteSets, TLC

\* ------------------------------------------------------------------ bounds
MaxWorkers == 2        \* replay worker threads created in one behaviour
MaxHotkeys == 2        \* hotkey listeners created in one behaviour
MaxCalls == 3          \* calls into the player in one behaviour: requests and hotkey presses

MaxRecListeners == 4   \* device listeners created in one behaviour (two per start)
MaxRecCalls == 3       \* recorder calls the request threads make in one behaviour
MaxNotes == 3          \* device notifications recorded in one behaviour
MaxTime == 2           \* clock ticks in one behaviour
RaceRecCalls == 2      \* the same three bounds when request threads race
RaceNotes == 2
RaceTime == 1

MaxStoreCalls == 3      \* manager calls and foreign writes in one behaviour

\* Python's None in an attribute that otherwise holds a thread or a listener.
None == 0

Callers == {"c1", "c2"}          \* request threads of the (threaded) web server
Workers == 1..MaxWorkers
Hotkeys == 1..MaxHotkeys
SeqCallers == {"c1"}             \* one request thread: calls in sequence
RecListeners == 1..MaxRecListeners

\* Time is counted in units of 0.1 s; the clock starts at Epoch.
Epoch == 1
\* The move throttle of _on_mouse_move, 0.1 s.
Throttle == 1

\* An event as the replay engine reads it: its 'type' and its 'timestamp'.
Ev(ty, ts) == [type |-> ty, timestamp |-> ts]

\* Inputs of the replay calls made by the racing request threads.
RaceEvents == { << Ev("mouse_click", 0), Ev("key_press", 1) >> }
RaceSpeeds == {1}
RaceRepeats == {1}
RaceDelays == {1}

VARIABLES
    \* ---- MacroPlayer
    playing,        \* self.playing
    loop_playing,   \* self.loop_playing
    play_thread,    \* self.play_thread: None or a worker
    stop_listener,  \* self.stop_listener: None or a hotkey listener
    wpc,            \* worker -> position in _play_events / _play_events_loop
    widx,           \* worker -> index of the next event of the pass (1-based)
    witer,          \* worker -> passes of `for _ in range(repeat)` begun
    wargs,          \* worker -> the args of its Thread
    wlast,          \* worker -> last_timestamp
    wclock,         \* worker -> time it has slept since its pass began
    wrem,           \* worker -> time left of the sleep between two passes
    wlog,           \* worker -> the _execute_event calls it has made
    hst,            \* hotkey listener -> "unborn" | "running" | "stopped"
    hpc,            \* hotkey listener -> position of its on_hotkey callback
    hjoin,          \* hotkey listener -> the thread its callback joins
    cpc,            \* request thread -> position in the player method it runs
    cret,           \* request thread -> result of its last call
    cjoin,          \* request thread -> the thread its stop_playback joins
    cargs,          \* request thread -> arguments of the call it runs
    \* ---- history of stop calls
    csnap,          \* request thread -> workers started when its stop began
    cidle,          \* request thread -> its stop began with no replay active
    hsnap,          \* hotkey listener -> workers started when its stop began
    quiesced,       \* workers started before a stop call that has returned
    ncalls,         \* calls into the player made so far
    \* ---- MacroRecorder
    events,             \* self.events
    recording,          \* self.recording
    start_time,         \* self.start_time: None or a clock value
    mouse_listener,     \* self.mouse_listener: None or a listener
    keyboard_listener,  \* self.keyboard_listener: None or a listener
    now,                \* time.time()
    lkind,              \* listener -> "mouse" | "keyboard"
    lst,                \* listener -> "unborn" | "created" | "running" | "stopped"
    lcb,                \* listener -> its callback in flight: position, type, timestamp
    rpc,                \* request thread -> position in the recorder method it runs
    rret,               \* request thread -> result of its last recorder call
    \* ---- history of recorder calls
    prevcall,           \* the last recorder call that returned, with its result
    frozen,             \* stop_recording returned True and no start began since
    nrcalls,            \* recorder calls made so far
    nnotes,             \* device notifications recorded so far
    \* ---- MacroManager
    files,              \* stem -> the file macros_dir holds under that stem
    mret,               \* the last manager call: operation, name, outcome
    mprev,              \* the manager call before it
    \* ---- history of manager calls
    msaved,             \* name -> arguments of its last save_macro, unless deleted since
    mforeign,           \* something other than the manager wrote to macros_dir
    writable,           \* open(path, 'w') of a file of macros_dir goes through
    stop_resp,          \* the last response of the /stop_recording route
    nmcalls             \* manager calls and foreign writes made so far

\* The locals of a worker's frame that only the worker itself touches.
wlocal == << wlast, wclock, wrem, wlog >>

pvars == << playing, loop_playing, play_thread, stop_listener, wpc, widx, witer,
            wlocal, wargs, hst, hpc, hjoin, cpc, cret, cjoin, cargs, csnap, cidle, hsnap,
            quiesced, ncalls >>

rvars == << events, recording, start_time, mouse_listener, keyboard_listener, now,
            lkind, lst, lcb, rpc, rret, prevcall, frozen, nrcalls, nnotes >>

mvars == << files, mret, mprev, msaved, mforeign, writable, stop_resp, nmcalls >>

vars == << pvars, rvars, mvars >>

NoArgs == [events |-> << >>, speed |-> 1, repeat |-> 0, delay |-> 0, loop |-> FALSE]

PlayerInit ==
    /\ playing = FALSE
    /\ loop_playing = FALSE
    /\ play_thread = None
    /\ stop_listener = None
    /\ wpc = [w \in Workers |-> "unborn"]
    /\ widx = [w \in Workers |-> 1]
    /\ witer = [w \in Workers |-> 0]
    /\ wargs = [w \in Workers |-> NoArgs]
    /\ wlast = [w \in Workers |-> 0]
    /\ wclock = [w \in Workers |-> 0]
    /\ wrem = [w \in Workers |-> 0]
    /\ wlog = [w \in Workers |-> << >>]
    /\ hst = [l \in Hotkeys |-> "unborn"]
    /\ hpc = [l \in Hotkeys |-> "idle"]
    /\ hjoin = [l \in Hotkeys |-> None]
    /\ cpc = [c \in Callers |-> "idle"]
    /\ cret = [c \in Callers |-> "none"]
    /\ cjoin = [c \in Callers |-> None]
    /\ cargs = [c \in Callers |-> NoArgs]
    /\ csnap = [c \in Callers |-> {}]
    /\ cidle = [c \in Callers |-> FALSE]
    /\ hsnap = [l \in Hotkeys |-> {}]
    /\ quiesced = {}
    /\ ncalls = 0

NoCallback == [pc |-> "idle", type |-> "", timestamp |-> 0]

RecorderInit ==
    /\ events = << >>
    /\ recording = FALSE
    /\ start_time = None
    /\ mouse_listener = None
    /\ keyboard_listener = None
    /\ now = Epoch
    /\ lkind = [l \in RecListeners |-> ""]
    /\ lst = [l \in RecListeners |-> "unborn"]
    /\ lcb = [l \in RecListeners |-> NoCallback]
    /\ rpc = [c \in Callers |-> "idle"]
    /\ rret = [c \in Callers |-> "none"]
    /\ prevcall = << "none", "none" >>
    /\ frozen = FALSE
    /\ nrcalls = 0
    /\ nnotes = 0

\* ---------------------------------------------------------------- helpers
\* Threads whose start() has been called and that have not yet ended.
Started == { w \in Workers : wpc[w] \notin {"unborn", "created", "done"} }

\* Request threads inside play_macro / play_macro_loop that will still create
\* a Thread, resp. a listener.
WillSpawn == { c \in Callers : cpc[c] \in {"pm_set", "pm_spawn", "pl_check2",
                  "pl_set_loop", "pl_set_play", "pl_listen", "pl_spawn"} }
WillListen == { c \in Callers : cpc[c] \in {"pl_check2", "pl_set_loop",
                  "pl_set_play", "pl_listen"} }
FreeWorker == Cardinality({ w \in Workers : wpc[w] = "unborn" }) > Cardinality(WillSpawn)
FreeHotkey == Cardinality({ l \in Hotkeys : hst[l] = "unborn" }) > Cardinality(WillListen)
NewWorker == CHOOSE w \in Workers : wpc[w] = "unborn" /\ \A v \in Workers : v < w => wpc[v] # "unborn"
NewHotkey == CHOOSE l \in Hotkeys : hst[l] = "unborn" /\ \A k \in Hotkeys : k < l => hst[k] # "unborn"

\* The request thread's method returns r; the route then builds its response.
Return(c, r) ==
    /\ cpc' = [cpc EXCEPT ![c] = "returned"]
    /\ cret' = [cret EXCEPT ![c] = r]
    /\ cargs' = [cargs EXCEPT ![c] = NoArgs]

\* Listener.stop(): ends a running listener, nothing otherwise.
ListenerStopped(l) == [hst EXCEPT ![l] = IF hst[l] = "running" THEN "stopped" ELSE hst[l]]

\* First position of the target of a started Thread.
EntryPc(w) == IF wargs[w].loop THEN "lp_while" ELSE "pe_outer"

\* ------------------------------------------------- MacroPlayer.play_macro
\* `if self.playing: return False`
PlayMacroGuard == playing

\* The call of play_macro by request thread c with arguments from E, S and R.
PlayMacroCall(c, E, S, R) ==
    /\ cpc[c] = "idle"
    /\ IF PlayMacroGuard
       THEN /\ Return(c, "false")
            /\ UNCHANGED << playing, loop_playing, play_thread, stop_listener, wpc,
                            widx, witer, wlocal, wargs, hst, hpc, hjoin, cjoin, csnap, cidle,
                            hsnap, quiesced >>
       ELSE /\ FreeWorker
            /\ \E ev \in E, sp \in S, rp \in R :
                   cargs' = [cargs EXCEPT ![c] = [events |-> ev, speed |-> sp,
                                 repeat |-> rp, delay |-> 0, loop |-> FALSE]]
            /\ cpc' = [cpc EXCEPT ![c] = "pm_set"]
            /\ UNCHANGED << playing, loop_playing, play_thread, stop_listener, wpc,
                            widx, witer, wlocal, wargs, hst, hpc, hjoin, cret, cjoin,
                            csnap, cidle, hsnap, quiesced >>
    /\ ncalls < MaxCalls
    /\ ncalls' = ncalls + 1
    /\ UNCHANGED rvars

PlayMacro(c, E, S, R) == PlayMacroCall(c, E, S, R) /\ UNCHANGED mvars

\* `self.playing = True`
PmSet(c) ==
    /\ cpc[c] = "pm_set"
    /\ playing' = TRUE
    /\ cpc' = [cpc EXCEPT ![c] = "pm_spawn"]
    /\ UNCHANGED << loop_playing, play_thread, stop_listener, wpc, widx, witer, wlocal,
                    wargs, hst, hpc, hjoin, cret, cjoin, cargs, csnap, cidle, hsnap,
                    quiesced >>
    /\ UNCHANGED ncalls
    /\ UNCHANGED << rvars, mvars >>

\* `self.play_thread = threading.Thread(target=..., args=...)`
SpawnThread(c, next) ==
    /\ play_thread' = NewWorker
    /\ wpc' = [wpc EXCEPT ![NewWorker] = "created"]
    /\ wargs' = [wargs EXCEPT ![NewWorker] = cargs[c]]
    /\ cpc' = [cpc EXCEPT ![c] = next]
    /\ UNCHANGED << playing, loop_playing, stop_listener, widx, witer, wlocal, hst, hpc,
                    hjoin, cret, cjoin, cargs, csnap, cidle, hsnap, quiesced >>
    /\ UNCHANGED ncalls
    /\ UNCHANGED << rvars, mvars >>

\* `self.play_thread.start(); return True`: starts whatever thread the
\* attribute holds now; Thread.start() of a started thread raises RuntimeError.
StartThread(c) ==
    /\ IF wpc[play_thread] = "created"
       THEN /\ wpc' = [wpc EXCEPT ![play_thread] = EntryPc(play_thread)]
            /\ Return(c, "true")
       ELSE /\ Return(c, "raised")
            /\ UNCHANGED wpc
    /\ UNCHANGED << playing, loop_playing, play_thread, stop_listener, widx, witer, wlocal,
                    wargs, hst, hpc, hjoin, cjoin, csnap, cidle, hsnap, quiesced >>
    /\ UNCHANGED ncalls
    /\ UNCHANGED << rvars, mvars >>

PmSpawn(c) == cpc[c] = "pm_spawn" /\ SpawnThread(c, "pm_start")

PmStart(c) == cpc[c] = "pm_start" /\ StartThread(c)

\* -------------------------------------------- MacroPlayer.play_macro_loop
\* The start check reading only the loop flag.
PlayLoopGuardLoopOnly == loop_playing

\* `if self.playing or self.loop_playing: return False`, first operand
PlayLoopGuard == playing

PlayMacroLoop(c, E, S, D) ==
    /\ cpc[c] = "idle"
    /\ IF PlayLoopGuard
       THEN /\ Return(c, "false")
            /\ UNCHANGED << playing, loop_playing, play_thread, stop_listener, wpc,
                            widx, witer, wlocal, wargs, hst, hpc, hjoin, cjoin, csnap, cidle,
                            hsnap, quiesced >>
       ELSE /\ FreeWorker
            /\ FreeHotkey
            /\ \E ev \in E, sp \in S, dl \in D :
                   cargs' = [cargs EXCEPT ![c] = [events |-> ev, speed |-> sp,
                                 repeat |-> 0, delay |-> dl, loop |-> TRUE]]
            /\ cpc' = [cpc EXCEPT ![c] = "pl_check2"]
            /\ UNCHANGED << playing, loop_playing, play_thread, stop_listener, wpc,
                            widx, witer, wlocal, wargs, hst, hpc, hjoin, cret, cjoin,
                            csnap, cidle, hsnap, quiesced >>
    /\ ncalls < MaxCalls
    /\ ncalls' = ncalls + 1
    /\ UNCHANGED << rvars, mvars >>

\* second operand of the `or`
PlCheck2(c) ==
    /\ cpc[c] = "pl_check2"
    /\ IF loop_playing
       THEN Return(c, "false")
       ELSE cpc' = [cpc EXCEPT ![c] = "pl_set_loop"] /\ UNCHANGED << cret, cargs >>
    /\ UNCHANGED << playing, loop_playing, play_thread, stop_listener, wpc, widx,
                    witer, wlocal, wargs, hst, hpc, hjoin, cjoin, csnap, cidle, hsnap, quiesced >>
    /\ UNCHANGED ncalls
    /\ UNCHANGED << rvars, mvars >>

\* `self.loop_playing = True`
PlSetLoop(c) ==
    /\ cpc[c] = "pl_set_loop"
    /\ loop_playing' = TRUE
    /\ cpc' = [cpc EXCEPT ![c] = "pl_set_play"]
    /\ UNCHANGED << playing, play_thread, stop_listener, wpc, widx, witer, wlocal, wargs,
                    hst, hpc, hjoin, cret, cjoin, cargs, csnap, cidle, hsnap, quiesced >>
    /\ UNCHANGED ncalls
    /\ UNCHANGED << rvars, mvars >>

\* `self.playing = True`
PlSetPlay(c) ==
    /\ cpc[c] = "pl_set_play"
    /\ playing' = TRUE
    /\ cpc' = [cpc EXCEPT ![c] = "pl_listen"]
    /\ UNCHANGED << loop_playing, play_thread, stop_listener, wpc, widx, witer, wlocal,
                    wargs, hst, hpc, hjoin, cret, cjoin, cargs, csnap, cidle, hsnap,
                    quiesced >>
    /\ UNCHANGED ncalls
    /\ UNCHANGED << rvars, mvars >>

\* `self._start_stop_listener()`: a GlobalHotKeys listener or, when that
\* raises, a plain keyboard.Listener; either is stored in self.stop_listener
\* and started, and either calls stop_loop_playback from its own thread.
StartStopListener(c) ==
    /\ cpc[c] = "pl_listen"
    /\ stop_listener' = NewHotkey
    /\ hst' = [hst EXCEPT ![NewHotkey] = "running"]
    /\ cpc' = [cpc EXCEPT ![c] = "pl_spawn"]
    /\ UNCHANGED << playing, loop_playing, play_thread, wpc, widx, witer, wlocal, wargs,
                    hpc, hjoin, cret, cjoin, cargs, csnap, cidle, hsnap, quiesced >>
    /\ UNCHANGED ncalls
    /\ UNCHANGED << rvars, mvars >>

PlSpawn(c) == cpc[c] = "pl_spawn" /\ SpawnThread(c, "pl_start")

PlStart(c) == cpc[c] = "pl_start" /\ StartThread(c)

\* The route handler sends its response; the request thread is free again.
Respond(c) ==
    /\ cpc[c] = "returned"
    /\ cpc' = [cpc EXCEPT ![c] = "idle"]
    /\ cret' = [cret EXCEPT ![c] = "none"]
    /\ UNCHANGED << playing, loop_playing, play_thread, stop_listener, wpc, widx,
                    witer, wlocal, wargs, hst, hpc, hjoin, cjoin, cargs, csnap, cidle, hsnap,
                    quiesced >>
    /\ UNCHANGED ncalls
    /\ UNCHANGED << rvars, mvars >>

\* ---------------------------------------------- MacroPlayer.stop_playback
\* `self.playing = False`
StopPlayback(c) ==
    /\ cpc[c] = "idle"
    /\ playing' = FALSE
    /\ cpc' = [cpc EXCEPT ![c] = "sp_loop"]
    /\ csnap' = [csnap EXCEPT ![c] = Started]
    /\ cidle' = [cidle EXCEPT ![c] = ~playing /\ ~loop_playing
                                  /\ \A w \in Workers : wpc[w] \in {"unborn", "done"}
                                  /\ \A l \in Hotkeys : hpc[l] = "idle"]
    /\ UNCHANGED << loop_playing, play_thread, stop_listener, wpc, widx, witer, wlocal,
                    wargs, hst, hpc, hjoin, cret, cjoin, cargs, hsnap, quiesced >>
    /\ ncalls < MaxCalls
    /\ ncalls' = ncalls + 1
    /\ UNCHANGED << rvars, mvars >>

\* `self.loop_playing = False`
SpLoop(c) ==
    /\ cpc[c] = "sp_loop"
    /\ loop_playing' = FALSE
    /\ cpc' = [cpc EXCEPT ![c] = "sp_lis"]
    /\ UNCHANGED << playing, play_thread, stop_listener, wpc, widx, witer, wlocal, wargs,
                    hst, hpc, hjoin, cret, cjoin, cargs, csnap, cidle, hsnap, quiesced >>
    /\ UNCHANGED ncalls
    /\ UNCHANGED << rvars, mvars >>

\* `if self.stop_listener: self.stop_listener.stop()`
SpLis(c) ==
    /\ cpc[c] = "sp_lis"
    /\ hst' = IF stop_listener = None THEN hst ELSE ListenerStopped(stop_listener)
    /\ cpc' = [cpc EXCEPT ![c] = "sp_thr"]
    /\ UNCHANGED << playing, loop_playing, play_thread, stop_listener, wpc, widx,
                    witer, wlocal, wargs, hpc, hjoin, cret, cjoin, cargs, csnap, cidle, hsnap,
                    quiesced >>
    /\ UNCHANGED ncalls
    /\ UNCHANGED << rvars, mvars >>

\* `if self.play_thread: self.play_thread.join()`: nothing to join, or
\* RuntimeError for a thread not yet started, or the wait begins.
SpThr(c) ==
    /\ cpc[c] = "sp_thr"
    /\ IF play_thread = None
       THEN /\ Return(c, "ok")
            /\ quiesced' = quiesced \cup csnap[c]
            /\ csnap' = [csnap EXCEPT ![c] = {}]
            /\ cidle' = [cidle EXCEPT ![c] = FALSE]
            /\ UNCHANGED cjoin
       ELSE IF wpc[play_thread] = "created"
       THEN /\ Return(c, "raised")
            /\ csnap' = [csnap EXCEPT ![c] = {}]
            /\ cidle' = [cidle EXCEPT ![c] = FALSE]
            /\ UNCHANGED << cjoin, quiesced >>
       ELSE /\ cjoin' = [cjoin EXCEPT ![c] = play_thread]
            /\ cpc' = [cpc EXCEPT ![c] = "sp_join"]
            /\ UNCHANGED << cret, cargs, csnap, cidle, quiesced >>
    /\ UNCHANGED << playing, loop_playing, play_thread, stop_listener, wpc, widx,
                    witer, wlocal, wargs, hst, hpc, hjoin, hsnap >>
    /\ UNCHANGED ncalls
    /\ UNCHANGED << rvars, mvars >>

\* Thread.join() returns once the joined thread has ended.
JoinDone(t) == wpc[t] = "done"

SpJoin(c) ==
    /\ cpc[c] = "sp_join"
    /\ JoinDone(cjoin[c])
    /\ Return(c, "ok")
    /\ cjoin' = [cjoin EXCEPT ![c] = None]
    /\ quiesced' = quiesced \cup csnap[c]
    /\ csnap' = [csnap EXCEPT ![c] = {}]
    /\ cidle' = [cidle EXCEPT ![c] = FALSE]
    /\ UNCHANGED << playing, loop_playing, play_thread, stop_listener, wpc, widx,
                    witer, wlocal, wargs, hst, hpc, hjoin, hsnap >>
    /\ UNCHANGED ncalls
    /\ UNCHANGED << rvars, mvars >>

\* ------------------------- hotkey listener thread: on_hotkey, stop_loop_playback
\* Ctrl+S or ESC reaches a running listener, which calls on_hotkey.
HotkeyFire(l) ==
    /\ hst[l] = "running"
    /\ hpc[l] = "idle"
    /\ hpc' = [hpc EXCEPT ![l] = "sl_loop"]
    /\ hsnap' = [hsnap EXCEPT ![l] = Started]
    /\ UNCHANGED << playing, loop_playing, play_thread, stop_listener, wpc, widx,
                    witer, wlocal, wargs, hst, hjoin, cpc, cret, cjoin, cargs, csnap, cidle,
                    quiesced >>
    /\ ncalls < MaxCalls
    /\ ncalls' = ncalls + 1
    /\ UNCHANGED << rvars, mvars >>

\* `self.loop_playing = False`
SlLoop(l) ==
    /\ hpc[l] = "sl_loop"
    /\ loop_playing' = FALSE
    /\ hpc' = [hpc EXCEPT ![l] = "sl_play"]
    /\ UNCHANGED << playing, play_thread, stop_listener, wpc, widx, witer, wlocal, wargs,
                    hst, hjoin, cpc, cret, cjoin, cargs, csnap, cidle, hsnap, quiesced >>
    /\ UNCHANGED ncalls
    /\ UNCHANGED << rvars, mvars >>

\* `self.playing = False`
SlPlay(l) ==
    /\ hpc[l] = "sl_play"
    /\ playing' = FALSE
    /\ hpc' = [hpc EXCEPT ![l] = "sl_lis"]
    /\ UNCHANGED << loop_playing, play_thread, stop_listener, wpc, widx, witer, wlocal,
                    wargs, hst, hjoin, cpc, cret, cjoin, cargs, csnap, cidle, hsnap,
                    quiesced >>
    /\ UNCHANGED ncalls
    /\ UNCHANGED << rvars, mvars >>

\* `if self.stop_listener: self.stop_listener.stop()`
SlLis(l) ==
    /\ hpc[l] = "sl_lis"
    /\ hst' = IF stop_listener = None THEN hst ELSE ListenerStopped(stop_listener)
    /\ hpc' = [hpc EXCEPT ![l] = "sl_thr"]
    /\ UNCHANGED << playing, loop_playing, play_thread, stop_listener, wpc, widx,
                    witer, wlocal, wargs, hjoin, cpc, cret, cjoin, cargs, csnap, cidle, hsnap,
                    quiesced >>
    /\ UNCHANGED ncalls
    /\ UNCHANGED << rvars, mvars >>

\* `if self.play_thread: self.play_thread.join()`; an exception ends the callback.
SlThr(l) ==
    /\ hpc[l] = "sl_thr"
    /\ IF play_thread = None
       THEN /\ hpc' = [hpc EXCEPT ![l] = "idle"]
            /\ quiesced' = quiesced \cup hsnap[l]
            /\ hsnap' = [hsnap EXCEPT ![l] = {}]
            /\ UNCHANGED << hjoin, hst >>
       ELSE IF wpc[play_thread] = "created"
       THEN /\ hpc' = [hpc EXCEPT ![l] = "idle"]
            /\ hst' = ListenerStopped(l)
            /\ hsnap' = [hsnap EXCEPT ![l] = {}]
            /\ UNCHANGED << hjoin, quiesced >>
       ELSE /\ hjoin' = [hjoin EXCEPT ![l] = play_thread]
            /\ hpc' = [hpc EXCEPT ![l] = "sl_join"]
            /\ UNCHANGED << hst, hsnap, quiesced >>
    /\ UNCHANGED << playing, loop_playing, play_thread, stop_listener, wpc, widx,
                    witer, wlocal, wargs, cpc, cret, cjoin, cargs, csnap, cidle >>
    /\ UNCHANGED ncalls
    /\ UNCHANGED << rvars, mvars >>

SlJoin(l) ==
    /\ hpc[l] = "sl_join"
    /\ JoinDone(hjoin[l])
    /\ hpc' = [hpc EXCEPT ![l] = "idle"]
    /\ hjoin' = [hjoin EXCEPT ![l] = None]
    /\ quiesced' = quiesced \cup hsnap[l]
    /\ hsnap' = [hsnap EXCEPT ![l] = {}]
    /\ UNCHANGED << playing, loop_playing, play_thread, stop_listener, wpc, widx,
                    witer, wlocal, wargs, hst, cpc, cret, cjoin, cargs, csnap, cidle >>
    /\ UNCHANGED ncalls
    /\ UNCHANGED << rvars, mvars >>

\* ------------------------------------------- worker: MacroPlayer._play_events
\* `wait_time = (event['timestamp'] - last_timestamp) / speed` raises
\* ZeroDivisionError when speed is 0.
WaitRaises(w) == wargs[w].speed = 0

\* What the worker reads for `self.playing` at a cancellation check.
ReadPlaying(w) == playing

\* What the worker reads for `self.loop_playing` at a cancellation check.
ReadLoopPlaying(w) == loop_playing

\* An event whose payload the input controller rejects (a button or key name
\* it does not know, a missing field): its synthesis raises.
BadEv(ty, ts) == [type |-> ty, timestamp |-> ts, payload |-> "invalid"]
SynthFails(e) == "payload" \in DOMAIN e /\ e.payload = "invalid"

\* _execute_event without its try/except.
ExecuteEventRaises(e) == IF SynthFails(e) THEN "raised" ELSE "done"

\* _execute_event: `try: ... except Exception as e: print(...)`; the call
\* returns normally whether or not the synthesis raised.
ExecuteEvent(e) == IF SynthFails(e) THEN "logged" ELSE "done"

\* The wait without the division by speed.
WaitTimeUnscaled(e, last, speed) == e.timestamp - last

\* `wait_time = (event['timestamp'] - last_timestamp) / speed`, for offsets
\* that speed divides.
WaitTime(e, last, speed) == (e.timestamp - last) \div speed

\* `if wait_time > 0: time.sleep(wait_time)`: the time the worker sleeps.
Slept(wait) == IF wait > 0 THEN wait ELSE 0

WorkerFrame == UNCHANGED << play_thread, stop_listener, hpc, hjoin, cpc, cret,
                            cjoin, cargs, ncalls, rvars, mvars >>

\* A running worker keeps its arguments; the stop history is untouched.
WorkerRuns == UNCHANGED << wargs, csnap, cidle, hsnap, quiesced >>

\* The thread's target returns: its frame is gone, and the stop history
\* forgets a thread that can act no more.
WorkerEnds(w) ==
    /\ wpc' = [wpc EXCEPT ![w] = "done"]
    /\ wargs' = [wargs EXCEPT ![w] = NoArgs]
    /\ widx' = [widx EXCEPT ![w] = 1]
    /\ witer' = [witer EXCEPT ![w] = 0]
    /\ wlast' = [wlast EXCEPT ![w] = 0]
    /\ wclock' = [wclock EXCEPT ![w] = 0]
    /\ wrem' = [wrem EXCEPT ![w] = 0]
    /\ wlog' = [wlog EXCEPT ![w] = << >>]
    /\ csnap' = [c \in Callers |-> csnap[c] \ {w}]
    /\ UNCHANGED cidle
    /\ hsnap' = [l \in Hotkeys |-> hsnap[l] \ {w}]
    /\ quiesced' = quiesced \ {w}

\* The sleep, the _execute_event call and `last_timestamp = event['timestamp']`
\* of worker w for the event at its index; an exception leaving the call sends
\* the worker to fin, the first position of its `finally`.
Dispatch(w, next, fin) ==
    LET e == wargs[w].events[widx[w]]
        at == wclock[w] + Slept(WaitTime(e, wlast[w], wargs[w].speed))
        r == ExecuteEvent(e)
    IN  /\ wclock' = [wclock EXCEPT ![w] = at]
        /\ wlog' = [wlog EXCEPT ![w] = Append(@, [pass |-> witer[w], idx |-> widx[w],
                                                   at |-> at, result |-> r])]
        /\ IF r = "raised"
           THEN /\ wpc' = [wpc EXCEPT ![w] = fin]
                /\ UNCHANGED << widx, wlast >>
           ELSE /\ wpc' = [wpc EXCEPT ![w] = next]
                /\ widx' = [widx EXCEPT ![w] = widx[w] + 1]
                /\ wlast' = [wlast EXCEPT ![w] = e.timestamp]

\* range(repeat) exhausted after the first pass, whatever repeat is.
RangeDoneAfterOne(w) == witer[w] >= 1

\* `for _ in range(repeat)`: the range is exhausted (at once if repeat <= 0).
RangeDone(w) == witer[w] >= wargs[w].repeat

\* `for _ in range(repeat): if not self.playing: break; last_timestamp = 0`
PeOuter(w) ==
    /\ wpc[w] = "pe_outer"
    /\ IF RangeDone(w) \/ ~ReadPlaying(w)
       THEN /\ wpc' = [wpc EXCEPT ![w] = "pe_fin"]
            /\ UNCHANGED << widx, witer, wlast, wclock >>
       ELSE /\ wpc' = [wpc EXCEPT ![w] = "pe_inner"]
            /\ widx' = [widx EXCEPT ![w] = 1]
            /\ witer' = [witer EXCEPT ![w] = witer[w] + 1]
            /\ wlast' = [wlast EXCEPT ![w] = 0]
            /\ wclock' = [wclock EXCEPT ![w] = 0]
    /\ UNCHANGED << playing, loop_playing, hst, wrem, wlog >>
    /\ WorkerFrame
    /\ WorkerRuns

\* `for event in events: if not self.playing: break`, then the wait is computed
PeInner(w) ==
    /\ wpc[w] = "pe_inner"
    /\ IF widx[w] > Len(wargs[w].events) \/ ~ReadPlaying(w)
       THEN wpc' = [wpc EXCEPT ![w] = "pe_outer"]
       ELSE IF WaitRaises(w)
       THEN wpc' = [wpc EXCEPT ![w] = "pe_fin"]
       ELSE wpc' = [wpc EXCEPT ![w] = "pe_exec"]
    /\ UNCHANGED << playing, loop_playing, hst, widx, witer, wlocal >>
    /\ WorkerFrame
    /\ WorkerRuns

\* `time.sleep(wait_time)` if positive, then `self._execute_event(event)`,
\* which contains its own failures; `last_timestamp = event['timestamp']`
PeExec(w) ==
    /\ wpc[w] = "pe_exec"
    /\ Dispatch(w, "pe_inner", "pe_fin")
    /\ UNCHANGED << playing, loop_playing, hst, witer, wrem >>
    /\ WorkerFrame
    /\ WorkerRuns

\* A worker thread that ends without the finally of _play_events.
PeFinKeepsFlag(w) ==
    /\ wpc[w] = "pe_fin"
    /\ WorkerEnds(w)
    /\ UNCHANGED << playing, loop_playing, hst >>
    /\ WorkerFrame

\* `finally: self.playing = False`
PeFin(w) ==
    /\ wpc[w] = "pe_fin"
    /\ playing' = FALSE
    /\ WorkerEnds(w)
    /\ UNCHANGED << loop_playing, hst >>
    /\ WorkerFrame

\* -------------------------------------- worker: MacroPlayer._play_events_loop
\* `while self.loop_playing and self.playing:`, first operand
LpWhile(w) ==
    /\ wpc[w] = "lp_while"
    /\ wpc' = [wpc EXCEPT ![w] = IF ReadLoopPlaying(w) THEN "lp_while2" ELSE "lp_fin1"]
    /\ UNCHANGED << playing, loop_playing, hst, widx, witer, wlocal >>
    /\ WorkerFrame
    /\ WorkerRuns

\* second operand; `loop_count += 1` is only printed; `last_timestamp = 0`.
\* wclock and wlog start afresh with every pass of the loop.
LpWhile2(w) ==
    /\ wpc[w] = "lp_while2"
    /\ IF ReadPlaying(w)
       THEN /\ wpc' = [wpc EXCEPT ![w] = "lp_for"]
            /\ wlast' = [wlast EXCEPT ![w] = 0]
            /\ wclock' = [wclock EXCEPT ![w] = 0]
            /\ wlog' = [wlog EXCEPT ![w] = << >>]
       ELSE /\ wpc' = [wpc EXCEPT ![w] = "lp_fin1"]
            /\ UNCHANGED << wlast, wclock, wlog >>
    /\ widx' = [widx EXCEPT ![w] = 1]
    /\ UNCHANGED << playing, loop_playing, hst, witer, wrem >>
    /\ WorkerFrame
    /\ WorkerRuns

\* `for event in events: if not self.loop_playing or ...: break`
LpFor(w) ==
    /\ wpc[w] = "lp_for"
    /\ wpc' = [wpc EXCEPT ![w] =
                 IF widx[w] > Len(wargs[w].events) \/ ~ReadLoopPlaying(w)
                 THEN "lp_dly" ELSE "lp_for2"]
    /\ UNCHANGED << playing, loop_playing, hst, widx, witer, wlocal >>
    /\ WorkerFrame
    /\ WorkerRuns

\* `... or not self.playing: break`, then the wait is computed
LpFor2(w) ==
    /\ wpc[w] = "lp_for2"
    /\ wpc' = [wpc EXCEPT ![w] = IF ~ReadPlaying(w) THEN "lp_dly"
                                 ELSE IF WaitRaises(w) THEN "lp_fin1"
                                 ELSE "lp_exec"]
    /\ UNCHANGED << playing, loop_playing, hst, widx, witer, wlocal >>
    /\ WorkerFrame
    /\ WorkerRuns

\* sleep, `self._execute_event(event)`, `last_timestamp = event['timestamp']`
LpExec(w) ==
    /\ wpc[w] = "lp_exec"
    /\ Dispatch(w, "lp_for", "lp_fin1")
    /\ UNCHANGED << playing, loop_playing, hst, witer, wrem >>
    /\ WorkerFrame
    /\ WorkerRuns

\* `if self.loop_playing and self.playing and delay_between_loops > 0:`
LpDly(w) ==
    /\ wpc[w] = "lp_dly"
    /\ wpc' = [wpc EXCEPT ![w] = IF ReadLoopPlaying(w) THEN "lp_dly2" ELSE "lp_while"]
    /\ UNCHANGED << playing, loop_playing, hst, widx, witer, wlocal >>
    /\ WorkerFrame
    /\ WorkerRuns

LpDly2(w) ==
    /\ wpc[w] = "lp_dly2"
    /\ IF ReadPlaying(w) /\ wargs[w].delay > 0
       THEN /\ wpc' = [wpc EXCEPT ![w] = "lp_sleep"]
            /\ wrem' = [wrem EXCEPT ![w] = wargs[w].delay]
       ELSE /\ wpc' = [wpc EXCEPT ![w] = "lp_while"]
            /\ UNCHANGED wrem
    /\ UNCHANGED << playing, loop_playing, hst, widx, witer, wlast, wclock, wlog >>
    /\ WorkerFrame
    /\ WorkerRuns

\* `time.sleep(delay_between_loops)`: one sleep, no flag is read during it;
\* each step is one unit of time of that sleep going by.
LpSleep(w) ==
    /\ wpc[w] = "lp_sleep"
    /\ wrem' = [wrem EXCEPT ![w] = wrem[w] - 1]
    /\ wpc' = [wpc EXCEPT ![w] = IF wrem[w] > 1 THEN "lp_sleep" ELSE "lp_while"]
    /\ UNCHANGED << playing, loop_playing, hst, widx, witer, wlast, wclock, wlog >>
    /\ WorkerFrame
    /\ WorkerRuns

\* `finally: self.loop_playing = False`
LpFin1(w) ==
    /\ wpc[w] = "lp_fin1"
    /\ loop_playing' = FALSE
    /\ wpc' = [wpc EXCEPT ![w] = "lp_fin2"]
    /\ UNCHANGED << playing, hst, widx, witer, wlocal >>
    /\ WorkerFrame
    /\ WorkerRuns

\* `self.playing = False`
LpFin2(w) ==
    /\ wpc[w] = "lp_fin2"
    /\ playing' = FALSE
    /\ wpc' = [wpc EXCEPT ![w] = "lp_fin3"]
    /\ UNCHANGED << loop_playing, hst, widx, witer, wlocal >>
    /\ WorkerFrame
    /\ WorkerRuns

\* `if self.stop_listener: self.stop_listener.stop()`
LpFin3(w) ==
    /\ wpc[w] = "lp_fin3"
    /\ hst' = IF stop_listener = None THEN hst ELSE ListenerStopped(stop_listener)
    /\ WorkerEnds(w)
    /\ UNCHANGED << playing, loop_playing >>
    /\ WorkerFrame

\* ======================================================== MacroRecorder
RecWillListen(pcs) == Cardinality({ c \in Callers : rpc[c] \in pcs })
\* Listeners not yet created suffice for the calls that are under way.
FreeListeners ==
    Cardinality({ l \in RecListeners : lst[l] = "unborn" })
      >= 2 + 2 * RecWillListen({"sr_clear", "sr_set", "sr_time", "sr_mouse"})
           + RecWillListen({"sr_key"})
NewListener == CHOOSE l \in RecListeners :
                   lst[l] = "unborn" /\ \A k \in RecListeners : k < l => lst[k] # "unborn"

\* The recorder method returns r to its route; `call` names the method.
RecReturn(c, call, r) ==
    /\ rpc' = [rpc EXCEPT ![c] = "returned"]
    /\ rret' = [rret EXCEPT ![c] = r]
    /\ prevcall' = << call, r >>

\* A stop() that is never delivered to the listener.
RecListenerKept(l) == lst

\* Listener.stop(): ends a running listener, nothing otherwise.
RecListenerStopped(l) == [lst EXCEPT ![l] = IF lst[l] = "running" THEN "stopped" ELSE lst[l]]

\* `time.time() - self.start_time if self.start_time else 0`
GetTimestamp == IF start_time # None THEN now - start_time ELSE 0

\* The passing of time.
Tick(maxtime) ==
    /\ now < Epoch + maxtime
    /\ now' = now + 1
    /\ UNCHANGED << events, recording, start_time, mouse_listener, keyboard_listener,
                    lkind, lst, lcb, rpc, rret, prevcall, frozen, nrcalls, nnotes >>
    /\ UNCHANGED << pvars, mvars >>

\* ---------------------------------------- MacroRecorder.start_recording
\* The start check left out.
StartNeverRefused == FALSE

\* `if self.recording: return False`
StartRefused == recording

StartRecording(c, maxcalls) ==
    /\ rpc[c] = "idle"
    /\ nrcalls < maxcalls
    /\ nrcalls' = nrcalls + 1
    /\ IF StartRefused
       THEN /\ RecReturn(c, "start", "false")
            /\ UNCHANGED frozen
       ELSE /\ FreeListeners
            /\ rpc' = [rpc EXCEPT ![c] = "sr_clear"]
            /\ frozen' = FALSE
            /\ UNCHANGED << rret, prevcall >>
    /\ UNCHANGED << events, recording, start_time, mouse_listener, keyboard_listener,
                    now, lkind, lst, lcb, nnotes >>
    /\ UNCHANGED << pvars, mvars >>

\* `self.events.clear()`
ClearedEvents == << >>

SrClear(c) ==
    /\ rpc[c] = "sr_clear"
    /\ events' = ClearedEvents
    /\ rpc' = [rpc EXCEPT ![c] = "sr_set"]
    /\ UNCHANGED << recording, start_time, mouse_listener, keyboard_listener, now,
                    lkind, lst, lcb, rret, prevcall, frozen, nrcalls, nnotes >>
    /\ UNCHANGED << pvars, mvars >>

\* `self.recording = True`
SrSet(c) ==
    /\ rpc[c] = "sr_set"
    /\ recording' = TRUE
    /\ rpc' = [rpc EXCEPT ![c] = "sr_time"]
    /\ UNCHANGED << events, start_time, mouse_listener, keyboard_listener, now,
                    lkind, lst, lcb, rret, prevcall, frozen, nrcalls, nnotes >>
    /\ UNCHANGED << pvars, mvars >>

\* `self.start_time = time.time()`
SrTime(c) ==
    /\ rpc[c] = "sr_time"
    /\ start_time' = now
    /\ rpc' = [rpc EXCEPT ![c] = "sr_mouse"]
    /\ UNCHANGED << events, recording, mouse_listener, keyboard_listener, now,
                    lkind, lst, lcb, rret, prevcall, frozen, nrcalls, nnotes >>
    /\ UNCHANGED << pvars, mvars >>

\* `self.mouse_listener = mouse.Listener(on_click=..., on_move=..., on_scroll=...)`
SrMouse(c) ==
    /\ rpc[c] = "sr_mouse"
    /\ mouse_listener' = NewListener
    /\ lkind' = [lkind EXCEPT ![NewListener] = "mouse"]
    /\ lst' = [lst EXCEPT ![NewListener] = "created"]
    /\ rpc' = [rpc EXCEPT ![c] = "sr_key"]
    /\ UNCHANGED << events, recording, start_time, keyboard_listener, now, lcb,
                    rret, prevcall, frozen, nrcalls, nnotes >>
    /\ UNCHANGED << pvars, mvars >>

\* `self.keyboard_listener = keyboard.Listener(on_press=..., on_release=...)`
SrKey(c) ==
    /\ rpc[c] = "sr_key"
    /\ keyboard_listener' = NewListener
    /\ lkind' = [lkind EXCEPT ![NewListener] = "keyboard"]
    /\ lst' = [lst EXCEPT ![NewListener] = "created"]
    /\ rpc' = [rpc EXCEPT ![c] = "sr_mstart"]
    /\ UNCHANGED << events, recording, start_time, mouse_listener, now, lcb, rret,
                    prevcall, frozen, nrcalls, nnotes >>
    /\ UNCHANGED << pvars, mvars >>

\* `self.mouse_listener.start()`: starts the listener the attribute holds now;
\* start() of a listener already started raises RuntimeError.
SrMouseStart(c) ==
    /\ rpc[c] = "sr_mstart"
    /\ IF lst[mouse_listener] = "created"
       THEN /\ lst' = [lst EXCEPT ![mouse_listener] = "running"]
            /\ rpc' = [rpc EXCEPT ![c] = "sr_kstart"]
            /\ UNCHANGED << rret, prevcall >>
       ELSE /\ RecReturn(c, "start", "raised")
            /\ UNCHANGED lst
    /\ UNCHANGED << events, recording, start_time, mouse_listener, keyboard_listener,
                    now, lkind, lcb, frozen, nrcalls, nnotes >>
    /\ UNCHANGED << pvars, mvars >>

\* `self.keyboard_listener.start(); return True`
SrKeyStart(c) ==
    /\ rpc[c] = "sr_kstart"
    /\ IF lst[keyboard_listener] = "created"
       THEN /\ lst' = [lst EXCEPT ![keyboard_listener] = "running"]
            /\ RecReturn(c, "start", "true")
       ELSE /\ RecReturn(c, "start", "raised")
            /\ UNCHANGED lst
    /\ UNCHANGED << events, recording, start_time, mouse_listener, keyboard_listener,
                    now, lkind, lcb, frozen, nrcalls, nnotes >>
    /\ UNCHANGED << pvars, mvars >>

\* ----------------------------------------- MacroRecorder.stop_recording
\* `if not self.recording: return False`
StopRefused == ~recording

StopRecording(c, maxcalls) ==
    /\ rpc[c] = "idle"
    /\ nrcalls < maxcalls
    /\ nrcalls' = nrcalls + 1
    /\ IF StopRefused
       THEN RecReturn(c, "stop", "false")
       ELSE /\ rpc' = [rpc EXCEPT ![c] = "st_set"]
            /\ UNCHANGED << rret, prevcall >>
    /\ UNCHANGED << events, recording, start_time, mouse_listener, keyboard_listener,
                    now, lkind, lst, lcb, frozen, nnotes >>
    /\ UNCHANGED << pvars, mvars >>

\* `self.recording = False`
StSet(c) ==
    /\ rpc[c] = "st_set"
    /\ recording' = FALSE
    /\ rpc' = [rpc EXCEPT ![c] = "st_mouse"]
    /\ UNCHANGED << events, start_time, mouse_listener, keyboard_listener, now,
                    lkind, lst, lcb, rret, prevcall, frozen, nrcalls, nnotes >>
    /\ UNCHANGED << pvars, mvars >>

\* `if self.mouse_listener: self.mouse_listener.stop()`
StMouse(c) ==
    /\ rpc[c] = "st_mouse"
    /\ lst' = IF mouse_listener = None THEN lst ELSE RecListenerStopped(mouse_listener)
    /\ rpc' = [rpc EXCEPT ![c] = "st_key"]
    /\ UNCHANGED << events, recording, start_time, mouse_listener, keyboard_listener,
                    now, lkind, lcb, rret, prevcall, frozen, nrcalls, nnotes >>
    /\ UNCHANGED << pvars, mvars >>

\* `if self.keyboard_listener: self.keyboard_listener.stop()`, `return True`
StKey(c) ==
    /\ rpc[c] = "st_key"
    /\ lst' = IF keyboard_listener = None THEN lst
              ELSE RecListenerStopped(keyboard_listener)
    /\ RecReturn(c, "stop", "true")
    /\ frozen' = TRUE
    /\ UNCHANGED << events, recording, start_time, mouse_listener, keyboard_listener,
                    now, lkind, lcb, nrcalls, nnotes >>
    /\ UNCHANGED << pvars, mvars >>

\* The route handler sends its response; the request thread is free again.
RecRespond(c) ==
    /\ rpc[c] = "returned"
    /\ rpc' = [rpc EXCEPT ![c] = "idle"]
    /\ rret' = [rret EXCEPT ![c] = "none"]
    /\ UNCHANGED << events, recording, start_time, mouse_listener, keyboard_listener,
                    now, lkind, lst, lcb, prevcall, frozen, nrcalls, nnotes >>
    /\ UNCHANGED << pvars, mvars >>

\* ------------------------------------ listener threads: the _on_* callbacks
CallbackFrame == UNCHANGED << recording, start_time, mouse_listener,
                              keyboard_listener, now, lkind, rpc, rret, prevcall,
                              frozen, nrcalls >>

\* A device notification of type ty reaches running listener l, whose thread
\* calls the handler: `if self.recording:` and, if so, the handler goes on at
\* position first.
Notify(l, ty, first, maxnotes) ==
    /\ lst[l] = "running"
    /\ lcb[l].pc = "idle"
    /\ IF recording
       THEN /\ nnotes < maxnotes
            /\ nnotes' = nnotes + 1
            /\ lcb' = [lcb EXCEPT ![l] = [pc |-> first, type |-> ty, timestamp |-> 0]]
       ELSE UNCHANGED << nnotes, lcb >>
    /\ UNCHANGED << events, lst >>
    /\ CallbackFrame
    /\ UNCHANGED << pvars, mvars >>

OnMouseClick(l, n) == lkind[l] = "mouse" /\ Notify(l, "mouse_click", "ts", n)

OnMouseMove(l, n) == lkind[l] = "mouse" /\ Notify(l, "mouse_move", "mv_empty", n)

OnMouseScroll(l, n) == lkind[l] = "mouse" /\ Notify(l, "mouse_scroll", "ts", n)

OnKeyPress(l, n) == lkind[l] = "keyboard" /\ Notify(l, "key_press", "ts", n)

OnKeyRelease(l, n) == lkind[l] = "keyboard" /\ Notify(l, "key_release", "ts", n)

\* The handler goes on at position next, or returns when next is "idle".
CallbackGoes(l, next) ==
    lcb' = [lcb EXCEPT ![l] = IF next = "idle" THEN NoCallback
                              ELSE [lcb[l] EXCEPT !.pc = next]]

\* An exception leaves the handler and ends the listener's thread.
CallbackRaises(l) ==
    /\ lcb' = [lcb EXCEPT ![l] = NoCallback]
    /\ lst' = [lst EXCEPT ![l] = "stopped"]

\* _on_mouse_move, `not self.events`
MvEmpty(l) ==
    /\ lcb[l].pc = "mv_empty"
    /\ CallbackGoes(l, IF events = << >> THEN "ts" ELSE "mv_type")
    /\ UNCHANGED << events, lst, nnotes >>
    /\ CallbackFrame
    /\ UNCHANGED << pvars, mvars >>

\* _on_mouse_move, `self.events[-1]['type'] != 'mouse_move'`
MvType(l) ==
    /\ lcb[l].pc = "mv_type"
    /\ IF events = << >>
       THEN CallbackRaises(l)
       ELSE /\ CallbackGoes(l, IF events[Len(events)].type # "mouse_move"
                               THEN "ts" ELSE "mv_gap")
            /\ UNCHANGED lst
    /\ UNCHANGED << events, nnotes >>
    /\ CallbackFrame
    /\ UNCHANGED << pvars, mvars >>

\* The throttle test with >= in place of >.
FarEnoughInclusive(t, last) == t - last >= Throttle

\* `self._get_timestamp() - self.events[-1]['timestamp'] > 0.1`
FarEnough(t, last) == t - last > Throttle

\* _on_mouse_move, the third operand of the throttle test
MvGap(l) ==
    /\ lcb[l].pc = "mv_gap"
    /\ IF events = << >>
       THEN CallbackRaises(l)
       ELSE /\ CallbackGoes(l, IF FarEnough(GetTimestamp, events[Len(events)].timestamp)
                               THEN "ts" ELSE "idle")
            /\ UNCHANGED lst
    /\ UNCHANGED << events, nnotes >>
    /\ CallbackFrame
    /\ UNCHANGED << pvars, mvars >>

\* `'timestamp': self._get_timestamp()` of the dict that is appended
ReadTimestamp(l) ==
    /\ lcb[l].pc = "ts"
    /\ lcb' = [lcb EXCEPT ![l] = [lcb[l] EXCEPT !.pc = "app", !.timestamp = GetTimestamp]]
    /\ UNCHANGED << events, lst, nnotes >>
    /\ CallbackFrame
    /\ UNCHANGED << pvars, mvars >>

\* `self.events.append({...})`
AppendEvent(l) ==
    /\ lcb[l].pc = "app"
    /\ events' = Append(events, Ev(lcb[l].type, lcb[l].timestamp))
    /\ CallbackGoes(l, "idle")
    /\ UNCHANGED << lst, nnotes >>
    /\ CallbackFrame
    /\ UNCHANGED << pvars, mvars >>

\* ======================================================== MacroManager
\* ------------------------------------------------ json.dump and json.load
\* The text of a file is the sequence of JSON tokens json.dump writes.
JTok(c) == [t |-> c]
JKey(k) == [t |-> "key", s |-> k]
JStr(s) == [t |-> "str", s |-> s]

RECURSIVE Flat(_)
\* The concatenation of a sequence of texts.
Flat(texts) == IF texts = << >> THEN << >> ELSE Head(texts) \o Flat(Tail(texts))

\* The keys an event dict may hold, in the order the recorder inserts them.
EventKeys == << "type", "timestamp", "payload" >>

\* json.dump of a scalar: a number for a timestamp, a string otherwise.
DumpScalar(k, v) == IF k = "timestamp" THEN [t |-> "num", n |-> v] ELSE JStr(v)

\* json.dump of one event dict: its members in insertion order.
DumpEvent(e) ==
    << JTok("{") >>
    \o Flat([i \in 1..Len(EventKeys) |->
                IF EventKeys[i] \in DOMAIN e
                THEN << JKey(EventKeys[i]), DumpScalar(EventKeys[i], e[EventKeys[i]]) >>
                ELSE << >>])
    \o << JTok("}") >>

\* json.dump of the events list, written back to front.
DumpEventsReversed(es) ==
    << JTok("[") >> \o Flat([i \in 1..Len(es) |-> DumpEvent(es[Len(es) + 1 - i])])
    \o << JTok("]") >>

\* json.dump of the events list.
DumpEvents(es) ==
    << JTok("[") >> \o Flat([i \in 1..Len(es) |-> DumpEvent(es[i])]) \o << JTok("]") >>

\* json.dump(macro_data, f, indent=2) for the dict save_macro builds.
JsonDump(data) ==
    << JTok("{"), JKey("name"), JStr(data.name),
       JKey("description"), JStr(data.description),
       JKey("created"), JStr(data.created), JKey("events") >>
    \o DumpEvents(data.events) \o << JTok("}") >>

\* What a parse yields: whether it succeeded, the kind and the value parsed,
\* for a dict the kind of every member, and the index of the next token.
ParseFail == [ok |-> FALSE, kind |-> "none", val |-> << >>, kinds |-> << >>, next |-> 0]
Parsed(kind, val, kinds, next) ==
    [ok |-> TRUE, kind |-> kind, val |-> val, kinds |-> kinds, next |-> next]

RECURSIVE ParseValue(_, _), ParseItems(_, _, _), ParseMembers(_, _, _, _)
\* json.load, one value starting at token i.
ParseValue(tx, i) ==
    IF i > Len(tx) THEN ParseFail
    ELSE CASE tx[i].t = "str" -> Parsed("str", tx[i].s, << >>, i + 1)
           [] tx[i].t = "num" -> Parsed("num", tx[i].n, << >>, i + 1)
           [] tx[i].t = "[" -> ParseItems(tx, i + 1, << >>)
           [] tx[i].t = "{" -> ParseMembers(tx, i + 1, << >>, << >>)
           [] OTHER -> ParseFail

\* The items of a list up to its closing bracket.
ParseItems(tx, i, acc) ==
    IF i > Len(tx) THEN ParseFail
    ELSE IF tx[i].t = "]" THEN Parsed("list", acc, << >>, i + 1)
    ELSE LET r == ParseValue(tx, i)
         IN  IF r.ok THEN ParseItems(tx, r.next, Append(acc, r.val)) ELSE ParseFail

\* The members of a dict up to its closing brace; a repeated key keeps its
\* last value.
ParseMembers(tx, i, acc, kacc) ==
    IF i > Len(tx) THEN ParseFail
    ELSE IF tx[i].t = "}" THEN Parsed("dict", acc, kacc, i + 1)
    ELSE IF tx[i].t # "key" THEN ParseFail
    ELSE LET r == ParseValue(tx, i + 1)
         IN  IF r.ok
             THEN ParseMembers(tx, r.next, (tx[i].s :> r.val) @@ acc,
                               (tx[i].s :> r.kind) @@ kacc)
             ELSE ParseFail

\* json.load(f): the whole text is one value, or JSONDecodeError.
JsonLoad(text) ==
    LET r == ParseValue(text, 1)
    IN  IF r.ok /\ r.next = Len(text) + 1 THEN r ELSE ParseFail

\* ------------------------------------------------------- the macros directory
\* A name is the sequence of the segments its string has between slashes:
\* << ".", "a" >> is "./a".
Names == { << "a" >>, << "b" >>, << ".", "a" >>, << "d", "a" >> }

\* `self.macros_dir / f"{name}.json"`: pathlib drops the "." segments; the
\* last segment, with the suffix, is the file, the others its directories
\* below macros_dir.
FilePath(name) ==
    LET segs == SelectSeq(name, LAMBDA c : c # ".")
    IN  [dir |-> SubSeq(segs, 1, Len(segs) - 1), stem |-> segs[Len(segs)]]

\* `datetime.now().strftime("%Y%m%d_%H%M%S")`, the clock to the second: every
\* clock value of a behaviour, Epoch and a few tenths of a second more, lies
\* in the same second.
StrfTime(t) == "0"

\* `name = f"macro_{timestamp}"`
AutoName(t) == << "macro_" \o StrfTime(t) >>

\* The files macros_dir can hold, by their stem; it has no subdirectory.
Stems == { "a", "b", "macro_0" }
\* The names that can have a record.
StoreNames == Names \cup { AutoName(Epoch) }
InStore(path) == path.dir = << >>

NoFile == [exists |-> FALSE, text |-> << >>]
FileOf(text) == [exists |-> TRUE, text |-> text]

\* `filepath.exists()`
Exists(path) == InStore(path) /\ files[path.stem].exists

\* `datetime.now().isoformat()`
IsoFormat(t) == [iso |-> t]

\* Arguments of the manager calls.
StoreEvents == { << >>,
                 << Ev("mouse_click", 0) >>,
                 << BadEv("key_press", 2), Ev("key_release", 4) >> }
StoreDescriptions == { "", "demo" }

\* Texts something other than save_macro may leave in a file of the
\* directory: an empty file, a record cut short, a JSON list, an empty dict.
ForeignTexts == { << >>,
                  << JTok("{"), JKey("name"), JStr(<< "a" >>), JKey("events"), JTok("[") >>,
                  << JTok("["), JTok("]") >>,
                  << JTok("{"), JTok("}") >> }

\* What the history keeps for a name: the arguments of its last save_macro.
NotSaved == [has |-> FALSE, events |-> << >>, description |-> ""]

NoPath == [dir |-> << >>, stem |-> ""]
NoResult == [op |-> "none", name |-> << >>, status |-> "none", val |-> << >>,
             path |-> NoPath, deleted |-> FALSE, entries |-> << >>, given |-> << >>]
\* What a call returned, in the field of its type: load_macro's value in val,
\* save_macro's path in path, delete_macro's bool in deleted, list_macros'
\* list in entries; given holds the events a saving call was given.
Result(op, name, status, val) ==
    [op |-> op, name |-> name, status |-> status,
     val |-> IF op = "load" THEN val ELSE << >>,
     path |-> IF op \in {"save", "autosave"} /\ status = "ok" THEN val ELSE NoPath,
     deleted |-> IF op = "delete" THEN val ELSE FALSE,
     entries |-> IF op = "list" THEN val ELSE << >>,
     given |-> << >>]

\* No /stop_recording request has been answered yet.
NoResponse == [sent |-> FALSE, success |-> FALSE, events |-> << >>, auto_saved |-> FALSE]

ManagerInit ==
    /\ files = [s \in Stems |-> NoFile]
    /\ mret = NoResult
    /\ mprev = NoResult
    /\ msaved = [n \in StoreNames |-> NotSaved]
    /\ mforeign = FALSE
    /\ writable = TRUE
    /\ stop_resp = NoResponse
    /\ nmcalls = 0

\* A manager call by request thread c, within the budget of calls.
ManagerCall(c) ==
    /\ cpc[c] = "idle"
    /\ nmcalls < MaxStoreCalls
    /\ nmcalls' = nmcalls + 1
    /\ mprev' = mret
    /\ UNCHANGED << pvars, rvars, writable, stop_resp >>

\* ------------------------------------------------- MacroManager.save_macro
\* The dict save_macro builds.
MacroData(name, evs, description) ==
    [name |-> name, description |-> description, created |-> IsoFormat(now),
     events |-> evs]

\* save_macro from any caller: open(filepath, 'w') raises FileNotFoundError
\* for a missing directory and OSError when the directory cannot be written;
\* otherwise the file holds the dump and the path is returned.  op names the
\* method the caller entered the manager by.
SaveMacroBody(op, name, evs, description) ==
    IF InStore(FilePath(name)) /\ writable
    THEN /\ files' = [files EXCEPT ![FilePath(name).stem] =
                         FileOf(JsonDump(MacroData(name, evs, description)))]
         /\ mret' = [Result(op, name, "ok", FilePath(name)) EXCEPT !.given = evs]
         /\ msaved' = [msaved EXCEPT ![name] = [has |-> TRUE, events |-> evs,
                                                  description |-> description]]
    ELSE /\ mret' = [Result(op, name, "raised", << >>) EXCEPT !.given = evs]
         /\ UNCHANGED << files, msaved >>

SaveMacro(c, name, evs, description) ==
    /\ ManagerCall(c)
    /\ SaveMacroBody("save", name, evs, description)
    /\ UNCHANGED mforeign

\* -------------------------------------------- MacroManager.auto_save_macro
\* `e['pressed']` of a click; the payload of an event is kept only where a
\* claim reads it, and a click recorded without it counts as a press.
Pressed(e) == "pressed" \notin DOMAIN e \/ e.pressed

\* The counts and the duration the description is formatted from.
AutoDescription(evs) ==
    [mouse_clicks |-> Cardinality({ i \in 1..Len(evs) :
                                      evs[i].type = "mouse_click" /\ Pressed(evs[i]) }),
     key_presses |-> Cardinality({ i \in 1..Len(evs) : evs[i].type = "key_press" }),
     duration |-> IF Len(evs) > 1 THEN evs[Len(evs)].timestamp - evs[1].timestamp ELSE 0]

\* auto_save_macro without its test for an empty list.
AutoSaveAlways(evs) == SaveMacroBody("autosave", AutoName(now), evs, AutoDescription(evs))

\* `if not events: return ""`, else save_macro under the name of the second.
AutoSaveBody(evs) ==
    IF evs = << >>
    THEN /\ mret' = Result("autosave", << >>, "ok", NoPath)
         /\ UNCHANGED << files, msaved >>
    ELSE SaveMacroBody("autosave", AutoName(now), evs, AutoDescription(evs))

AutoSaveMacro(c, evs) ==
    /\ ManagerCall(c)
    /\ AutoSaveBody(evs)
    /\ UNCHANGED mforeign

\* ------------------------------------------------------- route save_macro
\* `if not name:` for the stripped name, else save_macro; the route's `except`
\* turns an exception into an error response.
SaveMacroRoute(c, name, evs, description) ==
    IF name = << >>
    THEN /\ ManagerCall(c)
         /\ mret' = [Result("save", name, "refused", << >>) EXCEPT !.given = evs]
         /\ UNCHANGED << files, msaved, mforeign >>
    ELSE SaveMacro(c, name, evs, description)

\* ------------------------------------------------- MacroManager.load_macro
\* None for a missing file, else json.load(f): a value or JSONDecodeError.
LoadOf(name) ==
    IF ~Exists(FilePath(name)) THEN [status |-> "none", data |-> ParseFail]
    ELSE LET r == JsonLoad(files[FilePath(name).stem].text)
         IN  [status |-> IF r.ok THEN "ok" ELSE "raised", data |-> r]

LoadMacro(c, name) ==
    /\ ManagerCall(c)
    /\ mret' = Result("load", name, LoadOf(name).status, LoadOf(name).data.val)
    /\ UNCHANGED << files, msaved, mforeign >>

\* ----------------------------------------------- MacroManager.delete_macro
\* `filepath.unlink()` leaves the directory without the file.
DeleteMacro(c, name) ==
    /\ ManagerCall(c)
    /\ IF Exists(FilePath(name))
       THEN /\ files' = [files EXCEPT ![FilePath(name).stem] = NoFile]
            /\ mret' = Result("delete", name, "ok", TRUE)
       ELSE /\ mret' = Result("delete", name, "ok", FALSE)
            /\ UNCHANGED files
    /\ msaved' = [msaved EXCEPT ![name] = NotSaved]
    /\ UNCHANGED mforeign

\* ------------------------------------------------ MacroManager.list_macros
\* `data.get(key, default)`; AttributeError unless data is a dict.
Get(r, key, default) == IF key \in DOMAIN r.val THEN r.val[key] ELSE default

\* `len(data.get('events', []))`
EventsCount(r) ==
    IF "events" \notin DOMAIN r.val THEN 0
    ELSE IF r.kinds["events"] = "list" THEN Len(r.val["events"])
    ELSE Cardinality(DOMAIN r.val["events"])

\* Every file of the directory counted as readable.
ReadableAlways(s) == TRUE

\* The body of the `try` goes through for the file of stem s: the text is
\* JSON, the value has .get, and len() takes its events (a number has none).
Readable(s) ==
    LET r == JsonLoad(files[s].text)
    IN  /\ r.ok
        /\ r.kind = "dict"
        /\ "events" \notin DOMAIN r.val \/ r.kinds["events"] \in {"list", "dict"}

\* The summary appended for the file of stem s.
Summary(s) ==
    LET r == JsonLoad(files[s].text)
    IN  [name |-> Get(r, "name", << s >>),
         description |-> Get(r, "description", ""),
         created |-> Get(r, "created", "Unknown"),
         events_count |-> EventsCount(r)]

\* One pass of the `for` over glob("*.json"): a summary, or the exception
\* printed and nothing appended.
ListEntry(s) ==
    IF ~files[s].exists THEN << >>
    ELSE IF Readable(s) THEN << Summary(s) >>
    ELSE << >>

\* The orders in which glob may yield the files.
GlobOrders == { o \in [1..Cardinality(Stems) -> Stems] :
                  \A i, j \in 1..Cardinality(Stems) : o[i] = o[j] => i = j }

ListMacros(c, order) ==
    /\ ManagerCall(c)
    /\ mret' = Result("list", << >>, "ok",
                      Flat([i \in 1..Len(order) |-> ListEntry(order[i])]))
    /\ UNCHANGED << files, msaved, mforeign >>

\* ------------------------------------- another writer of the directory
ForeignWrite(s, text) ==
    /\ nmcalls < MaxStoreCalls
    /\ nmcalls' = nmcalls + 1
    /\ mprev' = mret
    /\ files' = [files EXCEPT ![s] = FileOf(text)]
    /\ mforeign' = TRUE
    /\ mret' = NoResult
    /\ UNCHANGED << pvars, rvars, msaved, writable, stop_resp >>

\* ------------------------------------------------ route play_saved_macro
\* `if not macro_data`: None, or an empty list or dict.
Falsy(l) == l.status = "none" \/ (l.status = "ok" /\ DOMAIN l.data.val = {})

\* macro_data['events'] raises unless macro_data is a dict with that key;
\* so does load_macro on a text that is not JSON.  The route's `except`
\* turns either into an error response.
NoEvents(l) == l.status = "raised" \/ l.data.kind # "dict" \/ "events" \notin DOMAIN l.data.val

PlaySavedMacro(c, name, S, R) ==
    /\ nmcalls < MaxStoreCalls
    /\ nmcalls' = nmcalls + 1
    /\ mprev' = mret
    /\ mret' = Result("load", name, LoadOf(name).status, LoadOf(name).data.val)
    /\ UNCHANGED << files, msaved, mforeign, writable, stop_resp >>
    /\ IF NoEvents(LoadOf(name)) \/ Falsy(LoadOf(name))
       THEN /\ cpc[c] = "idle"
            /\ Return(c, IF LoadOf(name).status = "raised" THEN "error"
                         ELSE IF Falsy(LoadOf(name)) THEN "not_found" ELSE "error")
            /\ ncalls < MaxCalls
            /\ ncalls' = ncalls + 1
            /\ UNCHANGED << playing, loop_playing, play_thread, stop_listener, wpc,
                            widx, witer, wlocal, wargs, hst, hpc, hjoin, cjoin,
                            csnap, cidle, hsnap, quiesced, rvars >>
       ELSE PlayMacroCall(c, { LoadOf(name).data.val["events"] }, S, R)

\* ---------------------------------------------------------- specifications
Init == PlayerInit /\ RecorderInit /\ ManagerInit

\* The player with the request threads of CS, whose calls draw their arguments
\* from E, S, R and D, its hotkey listeners and its workers.
PlayerStep(CS, E, S, R, D) ==
    \/ \E c \in CS : PlayMacro(c, E, S, R)
    \/ \E c \in CS : PmSet(c)
    \/ \E c \in CS : PmSpawn(c)
    \/ \E c \in CS : PmStart(c)
    \/ \E c \in CS : PlayMacroLoop(c, E, S, D)
    \/ \E c \in CS : PlCheck2(c)
    \/ \E c \in CS : PlSetLoop(c)
    \/ \E c \in CS : PlSetPlay(c)
    \/ \E c \in CS : StartStopListener(c)
    \/ \E c \in CS : PlSpawn(c)
    \/ \E c \in CS : PlStart(c)
    \/ \E c \in CS : StopPlayback(c)
    \/ \E c \in CS : SpLoop(c)
    \/ \E c \in CS : SpLis(c)
    \/ \E c \in CS : SpThr(c)
    \/ \E c \in CS : SpJoin(c)
    \/ \E c \in CS : Respond(c)
    \/ \E l \in Hotkeys : HotkeyFire(l)
    \/ \E l \in Hotkeys : SlLoop(l)
    \/ \E l \in Hotkeys : SlPlay(l)
    \/ \E l \in Hotkeys : SlLis(l)
    \/ \E l \in Hotkeys : SlThr(l)
    \/ \E l \in Hotkeys : SlJoin(l)
    \/ \E w \in Workers : PeOuter(w)
    \/ \E w \in Workers : PeInner(w)
    \/ \E w \in Workers : PeExec(w)
    \/ \E w \in Workers : PeFin(w)
    \/ \E w \in Workers : LpWhile(w)
    \/ \E w \in Workers : LpWhile2(w)
    \/ \E w \in Workers : LpFor(w)
    \/ \E w \in Workers : LpFor2(w)
    \/ \E w \in Workers : LpExec(w)
    \/ \E w \in Workers : LpDly(w)
    \/ \E w \in Workers : LpDly2(w)
    \/ \E w \in Workers : LpSleep(w)
    \/ \E w \in Workers : LpFin1(w)
    \/ \E w \in Workers : LpFin2(w)
    \/ \E w \in Workers : LpFin3(w)

\* Racing request threads.
PlayerNext == PlayerStep(Callers, RaceEvents, RaceSpeeds, RaceRepeats, RaceDelays)

SpecPlayer == Init /\ [][PlayerNext]_vars

\* Inputs of the replay calls one request thread makes one after another:
\* offsets are whole time units, and every speed but 0 divides their
\* differences.
SeqEvents == { << >>,
               << Ev("mouse_click", 0), Ev("mouse_click", 2), Ev("key_press", 4) >>,
               << BadEv("mouse_click", 2), Ev("key_press", 2), BadEv("key_release", 4) >>,
               << Ev("mouse_move", 4), Ev("mouse_click", 2) >> }
SeqSpeeds == {0, 1, 2}
SeqRepeats == {-1, 0, 1, 2}

\* One request thread making any call of the player, with the hotkey
\* listeners and the workers.
LoopEvents == { << BadEv("mouse_click", 2), Ev("key_press", 4) >> }
LoopSpeeds == {0, 2}
LoopRepeats == {2}
LoopDelays == {0, 3}

PlayerSeqNext == PlayerStep(SeqCallers, LoopEvents, LoopSpeeds, LoopRepeats, LoopDelays)

SpecPlayerSeq == Init /\ [][PlayerSeqNext]_vars

\* Finite replays only, never cancelled: one request thread calls play_macro,
\* nothing calls stop_playback and no hotkey listener exists.
ReplayNext ==
    \/ \E c \in SeqCallers : PlayMacro(c, SeqEvents, SeqSpeeds, SeqRepeats)
    \/ \E c \in SeqCallers : PmSet(c)
    \/ \E c \in SeqCallers : PmSpawn(c)
    \/ \E c \in SeqCallers : PmStart(c)
    \/ \E c \in SeqCallers : Respond(c)
    \/ \E w \in Workers : PeOuter(w)
    \/ \E w \in Workers : PeInner(w)
    \/ \E w \in Workers : PeExec(w)
    \/ \E w \in Workers : PeFin(w)

SpecReplay == Init /\ [][ReplayNext]_vars

\* The requests of one client with arguments a route does not check: an
\* empty event list, a blank name.  The client asks either for finite replays
\* or for saves.
RouteEvents == { << >>, << Ev("key_press", 2) >> }

RoutesNext ==
    \/ \E c \in SeqCallers : nmcalls = 0 /\ PlayMacro(c, RouteEvents, {1}, {1})
    \/ \E c \in SeqCallers : PmSet(c)
    \/ \E c \in SeqCallers : PmSpawn(c)
    \/ \E c \in SeqCallers : PmStart(c)
    \/ \E c \in SeqCallers : Respond(c)
    \/ \E w \in Workers : PeOuter(w)
    \/ \E w \in Workers : PeInner(w)
    \/ \E w \in Workers : PeExec(w)
    \/ \E w \in Workers : PeFin(w)
    \/ \E c \in SeqCallers, n \in Names \cup { << >> }, e \in StoreEvents,
          d \in StoreDescriptions :
           ncalls = 0 /\ SaveMacroRoute(c, n, e, d)

SpecRoutes == Init /\ [][RoutesNext]_vars

\* One request thread calling the manager and play_saved_macro, another
\* writer of the directory, and the workers of the replays started.
StoreNext ==
    \/ \E c \in SeqCallers, n \in Names \cup { << >> }, e \in StoreEvents,
          d \in StoreDescriptions :
           SaveMacroRoute(c, n, e, d)
    \/ \E c \in SeqCallers, e \in StoreEvents : AutoSaveMacro(c, e)
    \/ \E c \in SeqCallers, n \in Names : LoadMacro(c, n)
    \/ \E c \in SeqCallers, n \in Names : DeleteMacro(c, n)
    \/ \E c \in SeqCallers, o \in GlobOrders : ListMacros(c, o)
    \/ \E s \in Stems, t \in ForeignTexts : ForeignWrite(s, t)
    \/ \E c \in SeqCallers, n \in Names : PlaySavedMacro(c, n, {1}, {1})
    \/ \E c \in SeqCallers : PmSet(c)
    \/ \E c \in SeqCallers : PmSpawn(c)
    \/ \E c \in SeqCallers : PmStart(c)
    \/ \E c \in SeqCallers : Respond(c)
    \/ \E w \in Workers : PeOuter(w)
    \/ \E w \in Workers : PeInner(w)
    \/ \E w \in Workers : PeExec(w)
    \/ \E w \in Workers : PeFin(w)

SpecStore == Init /\ [][StoreNext]_vars

\* The recorder with the request threads of CS, its listener threads and time.
RecorderStep(CS, maxcalls, maxnotes, maxtime) ==
    \/ \E c \in CS : StartRecording(c, maxcalls)
    \/ \E c \in CS : SrClear(c)
    \/ \E c \in CS : SrSet(c)
    \/ \E c \in CS : SrTime(c)
    \/ \E c \in CS : SrMouse(c)
    \/ \E c \in CS : SrKey(c)
    \/ \E c \in CS : SrMouseStart(c)
    \/ \E c \in CS : SrKeyStart(c)
    \/ \E c \in CS : StopRecording(c, maxcalls)
    \/ \E c \in CS : StSet(c)
    \/ \E c \in CS : StMouse(c)
    \/ \E c \in CS : StKey(c)
    \/ \E c \in CS : RecRespond(c)
    \/ \E l \in RecListeners : OnMouseClick(l, maxnotes)
    \/ \E l \in RecListeners : OnMouseMove(l, maxnotes)
    \/ \E l \in RecListeners : OnMouseScroll(l, maxnotes)
    \/ \E l \in RecListeners : OnKeyPress(l, maxnotes)
    \/ \E l \in RecListeners : OnKeyRelease(l, maxnotes)
    \/ \E l \in RecListeners : MvEmpty(l)
    \/ \E l \in RecListeners : MvType(l)
    \/ \E l \in RecListeners : MvGap(l)
    \/ \E l \in RecListeners : ReadTimestamp(l)
    \/ \E l \in RecListeners : AppendEvent(l)
    \/ Tick(maxtime)

\* Racing request threads.
RecorderNext == RecorderStep(Callers, RaceRecCalls, RaceNotes, RaceTime)

SpecRecorder == Init /\ [][RecorderNext]_vars

\* One request thread, so that recorder calls follow one another.
RecSeqNext == RecorderStep(SeqCallers, MaxRecCalls, MaxNotes, MaxTime)

SpecRecSeq == Init /\ [][RecSeqNext]_vars

\* ------------------------------------------------------------------ claims
\* Positions of a worker inside its dispatch loop, and right before a dispatch.
LoopPcs == {"pe_outer", "pe_inner", "pe_exec", "lp_while", "lp_while2", "lp_for",
            "lp_for2", "lp_exec", "lp_dly", "lp_dly2", "lp_sleep"}
ExecPcs == {"pe_exec", "lp_exec"}

\* The step in which worker w calls _execute_event.
DispatchStep(w) == wpc[w] \in ExecPcs /\ wpc'[w] \notin ExecPcs

InDispatchLoop == { w \in Workers : wpc[w] \in LoopPcs }

\* Request threads that passed the start check of play_macro / play_macro_loop
\* and have not returned yet.
PastStartCheck == { c \in Callers : cpc[c] \in {"pm_set", "pm_spawn", "pm_start",
                      "pl_set_loop", "pl_set_play", "pl_listen", "pl_spawn",
                      "pl_start"} }

StopInProgress ==
    \/ \E c \in Callers : cpc[c] \in {"sp_loop", "sp_lis", "sp_thr", "sp_join"}
    \/ \E l \in Hotkeys : hpc[l] # "idle"

\* C1: once a stop call (stop_playback or stop_loop_playback) has returned, no
\* worker that was started before that call was invoked performs a dispatch.
C1_NoDispatchAfterStop == [][\A w \in quiesced : ~DispatchStep(w)]_vars

\* C2: at most one worker executes its dispatch loop at a time, and at most one
\* of the racing play / play_loop calls gets past the start check.
C2_AtMostOneReplay ==
    /\ Cardinality(InDispatchLoop) <= 1
    /\ Cardinality(PastStartCheck) <= 1

\* A request thread enters play_macro or play_macro_loop in this step.
PlayCallBegins(c) == cpc[c] = "idle" /\ cpc'[c] \in {"returned", "pm_set", "pl_check2"}

\* C3: a play or play_loop call made while the replay session is active
\* (self.playing) and no stop is in progress returns false and changes neither
\* the flags, the thread and listener attributes, any worker nor any listener.
C3_PlayWhileActiveFails ==
    [][\A c \in Callers :
          (PlayCallBegins(c) /\ playing /\ ~StopInProgress)
          => /\ cpc'[c] = "returned"
             /\ cret'[c] = "false"
             /\ UNCHANGED << playing, loop_playing, play_thread, stop_listener,
                             wpc, widx, witer, wargs, hst, hpc, hjoin >>]_vars

\* A call was refused while a worker was dispatching and the session was active.
C3_Witness ==
    \E c \in Callers :
        /\ cpc[c] = "returned" /\ cret[c] = "false"
        /\ playing /\ ~StopInProgress
        /\ \E w \in Workers : wpc[w] \in ExecPcs
\* ---------------------------------------------------- claims: MacroRecorder
\* Request thread c enters start_recording, resp. stop_recording, in this step.
StartBegins(c) ==
    /\ rpc[c] = "idle"
    /\ rpc'[c] = "sr_clear" \/ (rpc'[c] = "returned" /\ prevcall'[1] = "start")
StopBegins(c) ==
    /\ rpc[c] = "idle"
    /\ rpc'[c] = "st_set" \/ (rpc'[c] = "returned" /\ prevcall'[1] = "stop")

\* Request thread c leaves position pc in this step.
RecLeaves(c, pc) == rpc[c] = pc /\ rpc'[c] # pc

\* C4: start_recording on an active session returns false and leaves buffer,
\* start_time and listeners alone; otherwise it clears the buffer, sets
\* start_time to the clock, starts a mouse and a keyboard listener, marks the
\* session active and returns true; a start right after a start that returned
\* true returns false.
C4_StartContract ==
    [][\A c \in Callers :
          /\ (StartBegins(c) /\ recording)
             => /\ rret'[c] = "false"
                /\ UNCHANGED << events, recording, start_time, mouse_listener,
                                keyboard_listener, lkind, lst, lcb >>
          /\ (StartBegins(c) /\ ~recording) => rpc'[c] = "sr_clear"
          /\ RecLeaves(c, "sr_clear") => events' = << >>
          /\ RecLeaves(c, "sr_time") => start_time' = now
          /\ RecLeaves(c, "sr_kstart")
             => /\ rret'[c] = "true"
                /\ recording'
                /\ start_time' # None
                /\ mouse_listener' # None /\ keyboard_listener' # None
                /\ lkind'[mouse_listener'] = "mouse"
                /\ lst'[mouse_listener'] = "running"
                /\ lkind'[keyboard_listener'] = "keyboard"
                /\ lst'[keyboard_listener'] = "running"
          /\ (StartBegins(c) /\ prevcall = << "start", "true" >>)
             => rret'[c] = "false"]_vars

\* A start was refused right after a start that returned true, the buffer of
\* the running session holding an event.
C4_Witness ==
    /\ prevcall = << "start", "false" >>
    /\ nrcalls = 2
    /\ recording
    /\ events # << >>

RunningListeners(kind) == { l \in RecListeners : lst[l] = "running" /\ lkind[l] = kind }

\* C5: of racing start calls at most one is accepted, at most one mouse and
\* one keyboard listener run, and every running listener is the one the
\* recorder's attribute refers to, so that stop_recording will stop it.
C5_OneCaptureSession ==
    /\ Cardinality({ c \in Callers : rpc[c] \in {"sr_clear", "sr_set", "sr_time",
                        "sr_mouse", "sr_key", "sr_mstart", "sr_kstart"} }) <= 1
    /\ Cardinality(RunningListeners("mouse")) <= 1
    /\ Cardinality(RunningListeners("keyboard")) <= 1
    /\ RunningListeners("mouse") \subseteq {mouse_listener}
    /\ RunningListeners("keyboard") \subseteq {keyboard_listener}

\* C6: stop_recording on an inactive session returns false and changes
\* nothing; on an active one it stops both listeners, marks the session
\* inactive and returns true, and no step of it touches the buffer.
C6_StopContract ==
    [][\A c \in Callers :
          /\ (StopBegins(c) /\ ~recording)
             => /\ rret'[c] = "false"
                /\ UNCHANGED << events, recording, start_time, mouse_listener,
                                keyboard_listener, lkind, lst, lcb >>
          /\ (StopBegins(c) /\ recording) => rpc'[c] = "st_set"
          /\ (StopBegins(c) \/ RecLeaves(c, "st_set") \/ RecLeaves(c, "st_mouse")
                \/ RecLeaves(c, "st_key"))
             => events' = events
          /\ RecLeaves(c, "st_key")
             => /\ rret'[c] = "true"
                /\ ~recording'
                /\ lst'[mouse_listener'] = "stopped"
                /\ lst'[keyboard_listener'] = "stopped"]_vars

\* A stop returned true with events in the buffer.
C6_Witness ==
    /\ prevcall = << "stop", "true" >>
    /\ \E c \in Callers : rpc[c] = "returned" /\ rret[c] = "true"
    /\ Len(events) >= 2

\* C7: after stop_recording has returned true the buffer does not change
\* until a start_recording call is accepted.
C7_FrozenOnStop == [][frozen => events' = events]_vars

\* C8: the buffer is ordered by non-decreasing timestamp.
C8_OrderedByTimestamp ==
    \A i \in 1..(Len(events) - 1) : events[i].timestamp <= events[i + 1].timestamp

\* Listener l's handler leaves position pc in this step.
CbLeaves(l, pc) == lcb[l].pc = pc /\ lcb'[l].pc # pc

\* The throttle rule with Far(t, last) as its test of the distance of a move
\* at offset t from the stored move at offset last: each operand of the test
\* decides as the rule says, a kept notification is appended with the offset
\* it read, and click, scroll and key notifications are always kept.
ThrottleRule(l, Far(_, _)) ==
    /\ (lcb[l].pc = "idle" /\ lcb'[l].pc # "idle")
       => (lcb'[l].pc = "mv_empty" <=> lcb'[l].type = "mouse_move")
          /\ (lcb'[l].type # "mouse_move" => lcb'[l].pc = "ts")
    /\ CbLeaves(l, "mv_empty")
       => (lcb'[l].pc = "ts" <=> events = << >>)
          /\ (events # << >> => lcb'[l].pc = "mv_type")
    /\ (CbLeaves(l, "mv_type") /\ events # << >>)
       => (lcb'[l].pc = "ts" <=> events[Len(events)].type # "mouse_move")
          /\ (events[Len(events)].type = "mouse_move" => lcb'[l].pc = "mv_gap")
    /\ (CbLeaves(l, "mv_gap") /\ events # << >>)
       => (lcb'[l].pc = "ts" <=> Far(GetTimestamp, events[Len(events)].timestamp))
          /\ (~Far(GetTimestamp, events[Len(events)].timestamp)
                => lcb'[l].pc = "idle" /\ events' = events)
    /\ CbLeaves(l, "ts")
       => lcb'[l].pc = "app" /\ lcb'[l].timestamp = GetTimestamp
    /\ CbLeaves(l, "app")
       => events' = Append(events, Ev(lcb[l].type, lcb[l].timestamp))

AtLeastThrottle(t, last) == t - last >= Throttle
MoreThanThrottle(t, last) == t - last > Throttle

C10_MoveSpacing ==
    \A i \in 1..(Len(events) - 1) :
        (events[i].type = "mouse_move" /\ events[i + 1].type = "mouse_move")
        => events[i + 1].timestamp - events[i].timestamp >= Throttle

\* ---------------------------------------------------- claims: replay engine
\* The finite worker w leaves _play_events in this step.
FiniteEnds(w) == wpc[w] = "pe_fin" /\ wpc'[w] = "done"

\* The passes range(r) yields.
Passes(r) == IF r > 0 THEN r ELSE 0

\* The k-th _execute_event call of a replay of n events is for event
\* ((k-1) mod n) + 1 of pass ((k-1) div n) + 1.
InReplayOrder(log, n) ==
    \A k \in 1..Len(log) : /\ log[k].pass = ((k - 1) \div n) + 1
                           /\ log[k].idx = ((k - 1) % n) + 1

NonDecreasing(ev) == \A i \in 1..Len(ev) - 1 : ev[i].timestamp <= ev[i + 1].timestamp

\* In the log of worker w every dispatch comes (offset - predecessor offset)
\* / speed after the dispatch before it in its pass, the predecessor offset
\* being 0 and the pass beginning at time 0 for the first event, and at once
\* when that quotient is not positive.
WaitsScaled(w) ==
    LET log == wlog[w]
        ev == wargs[w].events
        sp == wargs[w].speed
    IN  \A k \in 1..Len(log) :
            LET i == log[k].idx
                pred == IF i = 1 THEN 0 ELSE ev[i - 1].timestamp
                base == IF i = 1 THEN 0 ELSE log[k - 1].at
                d == (ev[i].timestamp - pred) \div sp
            IN  log[k].at - base = IF d > 0 THEN d ELSE 0

\* A pass of worker w over non-decreasing offsets spans, from its first to its
\* last dispatch, (last offset - first offset) / speed.
SpanScaled(w) ==
    LET log == wlog[w]
        ev == wargs[w].events
        n == Len(ev)
    IN  NonDecreasing(ev)
        => \A k \in 1..Len(log) :
               log[k].idx = n
               => log[k].at - log[k - n + 1].at
                    = (ev[n].timestamp - ev[1].timestamp) \div wargs[w].speed

\* C12: replay timing scales as delta-offset / speed, in every pass of every
\* worker, over integer offsets and speeds that divide them.
C12_TimingScales == \A w \in Workers : WaitsScaled(w) /\ SpanScaled(w)

\* Offsets 0, 2, 4 replayed at speed 2: dispatches at 0, 1 and 2, a span of 2.
C12_Witness ==
    \E w \in Workers :
        /\ wargs[w].speed = 2
        /\ Len(wargs[w].events) = 3
        /\ wargs[w].events[1].timestamp = 0
        /\ wargs[w].events[3].timestamp = 4
        /\ Len(wlog[w]) = 3
        /\ wlog[w][3].at - wlog[w][1].at = 2

\* Cancellation has been requested: stop_playback or the hotkey's
\* stop_loop_playback has cleared a flag the loop worker polls.
CancelRequested == ~playing \/ ~loop_playing

\* C13: a loop worker in its delay between two passes stops sleeping within
\* one unit of time of a cancellation request, whatever delay_between_loops
\* is: no unit of the delay goes by under a pending request with the worker
\* still asleep after it.
C13_DelayPolled ==
    [][\A w \in Workers :
          (wpc[w] = "lp_sleep" /\ CancelRequested /\ wrem'[w] # wrem[w])
          => wpc'[w] # "lp_sleep"]_vars

\* Worker w enters the `finally` of its method in this step.
EntersFinally(w) == wpc[w] \notin {"pe_fin", "lp_fin1"} /\ wpc'[w] \in {"pe_fin", "lp_fin1"}

\* C14: a dispatch, failed or not, is logged and is followed by the loop test
\* for the next event of the pass, with the session flags as they were; and
\* with a positive speed a worker reaches its `finally` only because its range
\* of passes is exhausted or it has read a cleared flag, never because an
\* event's synthesis failed.
C14_FailureContained ==
    [][\A w \in Workers :
          /\ DispatchStep(w)
             => /\ wpc'[w] = IF wargs[w].loop THEN "lp_for" ELSE "pe_inner"
                /\ widx'[w] = widx[w] + 1
                /\ wlog'[w] = Append(wlog[w], wlog'[w][Len(wlog'[w])])
                /\ wlog'[w][Len(wlog'[w])].idx = widx[w]
                /\ wlog'[w][Len(wlog'[w])].result
                     = IF SynthFails(wargs[w].events[widx[w]]) THEN "logged" ELSE "done"
                /\ UNCHANGED << playing, loop_playing, wargs >>
          /\ (EntersFinally(w) /\ wargs[w].speed > 0)
             => \/ ~wargs[w].loop /\ witer[w] >= wargs[w].repeat
                \/ CancelRequested]_vars

\* A loop worker has dispatched the event after one whose synthesis failed.
C14_Witness ==
    \E w \in Workers :
        /\ wargs[w].loop
        /\ Len(wlog[w]) = 2
        /\ wlog[w][1].result = "logged"
        /\ wlog[w][2].result = "done"
        /\ playing /\ loop_playing

\* ------------------------------------------------ claims: hotkey listener
\* A loop replay is active: its flag is set, a request thread is inside
\* play_macro_loop past the start check, or a loop worker has not ended.
LoopReplayActive ==
    \/ loop_playing
    \/ \E c \in Callers : cpc[c] \in {"pl_set_loop", "pl_set_play", "pl_listen",
                                      "pl_spawn", "pl_start"}
    \/ \E w \in Workers : wargs[w].loop /\ wpc[w] \notin {"unborn", "done"}

\* The replay session is idle: both flags clear, no call of the player in
\* progress in a request thread or a hotkey callback, no worker alive.
ReplayIdle ==
    /\ ~playing /\ ~loop_playing
    /\ \A c \in Callers : cpc[c] \in {"idle", "returned"}
    /\ \A l \in Hotkeys : hpc[l] = "idle"
    /\ \A w \in Workers : wpc[w] \in {"unborn", "done"}

\* C15: a hotkey listener runs only while a loop replay is active, and none
\* runs once the session is idle again.
C15_ListenerLifecycle ==
    /\ (\E l \in Hotkeys : hst[l] = "running") => LoopReplayActive
    /\ ReplayIdle => \A l \in Hotkeys : hst[l] # "running"

\* ---------------------------------------------------- claims: MacroManager
\* This step is a load of the name whose save has just returned a path.
LoadAfterSave ==
    /\ mret.op = "save" /\ mret.status = "ok"
    /\ nmcalls' = nmcalls + 1
    /\ mret'.op = "load" /\ mret'.name = mret.name

\* C16: a load right after a save of the same name returns a record whose
\* events equal the saved list, element for element, field for field and in
\* the same order, and whose name and description are the saved ones.
C16_RoundTrip ==
    [][LoadAfterSave
       => /\ mret'.status = "ok"
          /\ mret'.val["events"] = msaved[mret.name].events
          /\ mret'.val["name"] = mret.name
          /\ mret'.val["description"] = msaved[mret.name].description]_vars

\* A two-event list, one event with a payload field, saved as "./a" with a
\* description, has been loaded right after its save.
C16_Witness ==
    /\ mprev.op = "save" /\ mprev.status = "ok" /\ mprev.name = << ".", "a" >>
    /\ mret.op = "load" /\ mret.status = "ok" /\ mret.name = << ".", "a" >>
    /\ msaved[<< ".", "a" >>].has
    /\ Len(msaved[<< ".", "a" >>].events) = 2
    /\ msaved[<< ".", "a" >>].description = "demo"

\* The records of the directory whose name field is n.
RecordsNamed(n) ==
    { s \in Stems : /\ files[s].exists
                    /\ JsonLoad(files[s].text).ok
                    /\ "name" \in DOMAIN JsonLoad(files[s].text).val
                    /\ JsonLoad(files[s].text).val["name"] = n }

\* C17: with only save_macro and delete_macro writing, the directory holds at
\* most one record per name, and a name saved and not deleted since loads as
\* the record of its last save, whatever was saved or deleted under other
\* names.
C17_KeyedByName ==
    ~mforeign
    => \A n \in Names :
           /\ Cardinality(RecordsNamed(n)) <= 1
           /\ msaved[n].has
              => /\ LoadOf(n).status = "ok"
                 /\ LoadOf(n).data.val["events"] = msaved[n].events
                 /\ LoadOf(n).data.val["name"] = n

\* This step is a delete_macro call.
DeleteStep == nmcalls' = nmcalls + 1 /\ mret'.op = "delete"

\* C18: while save_macro and delete_macro are the only writers, delete_macro
\* returns true exactly when the name has a record, that is, when its last
\* save was not followed by a delete of it; after the call the name has none;
\* and a delete right after a delete of the same name that returned true
\* returns false and leaves the directory as it was.
C18_DeleteOnce ==
    [][\A n \in Names :
         DeleteStep /\ mret'.name = n /\ ~mforeign
         => /\ mret'.deleted <=> msaved[n].has
            /\ (LoadOf(n).status = "none")'
            /\ (mret.op = "delete" /\ mret.name = n /\ mret.deleted)
               => ~mret'.deleted /\ files' = files]_vars

\* The files of the directory that hold a record as save_macro writes one, and
\* those whose text is not JSON at all.
ValidFiles ==
    { s \in Stems :
        /\ files[s].exists
        /\ JsonLoad(files[s].text).ok
        /\ JsonLoad(files[s].text).kind = "dict"
        /\ { "name", "description", "events" } \subseteq DOMAIN JsonLoad(files[s].text).val
        /\ JsonLoad(files[s].text).kinds["events"] = "list" }
CorruptFiles == { s \in Stems : files[s].exists /\ ~JsonLoad(files[s].text).ok }

\* This step is a list_macros call.
ListStep == nmcalls' = nmcalls + 1 /\ mret'.op = "list"

\* The summary e is the one of the record in the file of stem s.
SummaryOf(e, s) ==
    /\ e.name = JsonLoad(files[s].text).val["name"]
    /\ e.description = JsonLoad(files[s].text).val["description"]
    /\ e.events_count = Len(JsonLoad(files[s].text).val["events"])

\* C19: list_macros returns normally; its list has exactly one summary for
\* each valid record, with the record's name and the length of its events as
\* events_count, and no entry for a file that is not JSON; so a directory of
\* valid and corrupt files yields one entry per valid file, and an empty
\* directory the empty list.
C19_ListSkipsCorrupt ==
    [][ListStep
       => /\ mret'.status = "ok"
          /\ files' = files
          /\ \A s \in ValidFiles :
                 Cardinality({ i \in 1..Len(mret'.entries) : SummaryOf(mret'.entries[i], s) }) = 1
          /\ Len(mret'.entries) >= Cardinality(ValidFiles)
          /\ Len(mret'.entries) <= Cardinality({ s \in Stems : files[s].exists } \ CorruptFiles)
          /\ (ValidFiles \cup CorruptFiles = { s \in Stems : files[s].exists })
             => Len(mret'.entries) = Cardinality(ValidFiles)]_vars

\* list_macros has just returned one summary from a directory of one valid
\* file with events and one corrupt file.
C19_Witness ==
    /\ mret.op = "list"
    /\ Len(mret.entries) = 1
    /\ mret.entries[1].events_count > 0
    /\ Cardinality(ValidFiles) = 1
    /\ Cardinality(CorruptFiles) = 1

\* This step is load_macro(n), called directly or by the play_saved_macro
\* route, for a name that has no record: never saved, or deleted since, while
\* save_macro and delete_macro are the only writers.
LoadAbsent(n) ==
    /\ nmcalls' = nmcalls + 1
    /\ mret'.op = "load" /\ mret'.name = n
    /\ ~mforeign /\ ~msaved[n].has

\* C20: load_macro of a name with no record returns None and creates nothing;
\* play_saved_macro of such a name answers "Macro not found" and changes
\* neither the replay session, nor any worker or its dispatch log, nor the
\* directory.
C20_AbsentNameNoEffect ==
    [][\A n \in Names :
         LoadAbsent(n)
         => /\ mret'.status = "none"
            /\ files' = files
            /\ ncalls' # ncalls
               => /\ \E c \in Callers : cpc[c] = "idle" /\ cret'[c] = "not_found"
                  /\ UNCHANGED << playing, loop_playing, play_thread, stop_listener,
                                  wpc, widx, witer, wlog, wargs, hst >>]_vars

\* This step is an auto_save_macro call.
AutoSaveStep == nmcalls' = nmcalls + 1 /\ mret'.op = "autosave"

\* C22: auto_save_macro of an empty list returns "" and leaves every file as
\* it was; of a non-empty list, when the write goes through, it returns the
\* path of macro_<timestamp>, changes no other file, and that file then loads
\* as a record of that name whose events are the given list.
C22_AutoSave ==
    [][AutoSaveStep
       => IF mret'.given = << >>
          THEN mret'.path = NoPath /\ files' = files
          ELSE mret'.status = "ok"
               => /\ mret'.name = AutoName(now)
                  /\ mret'.path = FilePath(AutoName(now))
                  /\ \A s \in Stems \ { FilePath(AutoName(now)).stem } : files'[s] = files[s]
                  /\ files'[FilePath(AutoName(now)).stem].exists
                  /\ LET r == JsonLoad(files'[FilePath(AutoName(now)).stem].text)
                     IN  /\ r.ok
                         /\ r.val["events"] = mret'.given
                         /\ r.val["name"] = AutoName(now)]_vars

\* auto_save_macro has just written two events over the record of one event
\* it wrote in the same second.
C22_Witness ==
    /\ mret.op = "autosave" /\ mret.status = "ok" /\ Len(mret.given) = 2
    /\ mprev.op = "autosave" /\ mprev.status = "ok" /\ Len(mprev.given) = 1
    /\ Exists(FilePath(AutoName(now)))

\* This step is a save-as request with a blank name or an empty event list.
SaveUserError ==
    /\ nmcalls' = nmcalls + 1
    /\ mret'.op = "save"
    /\ mret'.name = << >> \/ mret'.given = << >>

\* Request thread c passes the start check of play_macro or play_macro_loop
\* with an empty event list, and goes on to start a replay.
PlayAcceptsEmpty(c) ==
    \/ cpc[c] = "idle" /\ cpc'[c] = "pm_set" /\ cargs'[c].events = << >>
    \/ cpc[c] = "pl_check2" /\ cpc'[c] = "pl_set_loop" /\ cargs[c].events = << >>

\* C21: a save-as request with a blank name or an empty event list is answered
\* with a failure and changes no file; a play or play-loop request with an
\* empty event list does not pass the start check, so it starts no replay.
C21_UserErrorsRefused ==
    [][/\ SaveUserError => mret'.status # "ok" /\ files' = files
       /\ \A c \in Callers : ~PlayAcceptsEmpty(c)]_vars

\* No replay is active: both flags are clear, no worker runs or waits to be
\* started, and no hotkey callback is under way.
IdleSession ==
    /\ ~playing /\ ~loop_playing
    /\ \A w \in Workers : wpc[w] \in {"unborn", "done"}
    /\ \A l \in Hotkeys : hpc[l] = "idle"

\* Request thread c takes a step of stop_playback.
StopStep(c) ==
    /\ cpc[c] \in {"idle", "sp_loop", "sp_lis", "sp_thr", "sp_join"}
    /\ cpc'[c] \in {"sp_loop", "sp_lis", "sp_thr", "sp_join", "returned"}
    /\ cpc'[c] # cpc[c]
    /\ cpc[c] = "idle" => cpc'[c] = "sp_loop"

\* Request thread c takes a step of a stop_playback call that began on an
\* idle session.
IdleStopStep(c) ==
    /\ StopStep(c)
    /\ IF cpc[c] = "idle" THEN IdleSession ELSE cidle[c]

NoReplay ==
    /\ ~playing /\ ~loop_playing
    /\ \A w \in Workers : wpc[w] \in {"unborn", "done"}

\* C23: a stop_playback call that begins on an idle session keeps both
\* flags clear and no worker alive at every step, and returns normally with
\* no hotkey listener running and the start checks of play_macro and
\* play_macro_loop open.
C23_StopIdempotentIdle ==
    [][\A c \in Callers :
          IdleStopStep(c)
             => /\ NoReplay'
                /\ cpc'[c] = "returned"
                   => /\ cret'[c] = "ok"
                      /\ \A l \in Hotkeys : hst'[l] # "running"
                      /\ ~PlayMacroGuard' /\ ~PlayLoopGuard']_vars

\* The flags, the workers and the return value of an idle stop_playback
\* alone, leaving out the hotkey listeners.
C23_IdleStopReturns ==
    [][\A c \in Callers :
          IdleStopStep(c)
             => /\ NoReplay'
                /\ cpc'[c] = "returned"
                   => /\ cret'[c] = "ok"
                      /\ ~PlayMacroGuard' /\ ~PlayLoopGuard']_vars

\* The second of two stop_playback calls on a player that never played has
\* returned.
C23_Witness ==
    /\ ncalls = 2
    /\ play_thread = None
    /\ \E c \in Callers : cpc[c] = "returned" /\ cret[c] = "ok"

\* C24: a replay call with speed <= 0 starts no worker unless the speed the
\* worker divides by has been made positive: every worker thread that
\* exists runs with a positive speed, so none computes a wait from a zero
\* or negative speed or leaves its loop through the division.
C24_SpeedChecked ==
    \A w \in Workers :
        wpc[w] \notin {"unborn", "done"}
           => /\ wargs[w].speed > 0
              /\ ~(wpc[w] \in {"pe_inner", "lp_for2"} /\ WaitRaises(w))

\* C27: a loop worker leaves its while loop for its finally block only when
\* a flag has been cleared, that is after stop_playback, the hotkey
\* callback or another worker's finally has requested the cancellation;
\* it never leaves with both flags set.
C27_LoopEndsByCancel ==
    [][\A w \in Workers :
          (wpc[w] \in LoopPcs /\ wpc[w] # "lp_fin1" /\ wpc'[w] = "lp_fin1")
             => CancelRequested]_vars

\* Workers that were running when a stop_playback call cleared self.playing,
\* during that call and after its return.
Cancelled == UNION { csnap[c] : c \in Callers } \cup quiesced

\* C28: a worker that was running when stop_playback cleared self.playing
\* passes no further pre-event check: it dispatches at most the event whose
\* check it had already passed, whatever a concurrent play_macro or
\* play_macro_loop writes to the flag.
C28_CancelNotLost ==
    [][\A w \in Cancelled :
          ~(wpc[w] \notin ExecPcs /\ wpc'[w] \in ExecPcs)]_vars

\* Positions of a worker inside the while loop of _play_events_loop.
InLoopBody == {"lp_while", "lp_while2", "lp_for", "lp_for2", "lp_exec", "lp_dly",
               "lp_dly2", "lp_sleep"}

\* C29: while a worker is inside the while loop of _play_events_loop and
\* self.loop_playing is set, a hotkey listener started by play_macro_loop is
\* running; the moment of a play_macro_loop call between setting the flag
\* and starting its listener is left out.
C29_LoopHasListener ==
    (/\ loop_playing
     /\ \E w \in Workers : wpc[w] \in InLoopBody
     /\ \A c \in Callers : cpc[c] \notin {"pl_set_play", "pl_listen"})
       => \E l \in Hotkeys : hst[l] = "running"

\* ------------------------------------------------ finite replays, scheduled
\* One request thread calls play_macro and stop_playback; the threads of the
\* process are scheduled fairly: a worker that can take a step of
\* _play_events takes it, and so does the request thread inside a call.
FairEvents == { << BadEv("mouse_click", 1), Ev("key_press", 2) >> }
FairSpeeds == {0, 1}
FairRepeats == {2}

ReplayStopNext ==
    \/ \E c \in SeqCallers : PlayMacro(c, FairEvents, FairSpeeds, FairRepeats)
    \/ \E c \in SeqCallers : PmSet(c)
    \/ \E c \in SeqCallers : PmSpawn(c)
    \/ \E c \in SeqCallers : PmStart(c)
    \/ \E c \in SeqCallers : StopPlayback(c)
    \/ \E c \in SeqCallers : SpLoop(c)
    \/ \E c \in SeqCallers : SpLis(c)
    \/ \E c \in SeqCallers : SpThr(c)
    \/ \E c \in SeqCallers : SpJoin(c)
    \/ \E c \in SeqCallers : Respond(c)
    \/ \E w \in Workers : PeOuter(w)
    \/ \E w \in Workers : PeInner(w)
    \/ \E w \in Workers : PeExec(w)
    \/ \E w \in Workers : PeFin(w)

SpecReplayFair ==
    /\ Init
    /\ [][ReplayStopNext]_vars
    /\ \A w \in Workers :
          /\ WF_vars(PeOuter(w))
          /\ WF_vars(PeInner(w))
          /\ WF_vars(PeExec(w))
          /\ WF_vars(PeFin(w))
    /\ \A c \in SeqCallers :
          /\ WF_vars(PmSet(c))
          /\ WF_vars(PmSpawn(c))
          /\ WF_vars(PmStart(c))

\* Positions of a worker that runs _play_events.
FinitePcs == {"pe_outer", "pe_inner", "pe_exec", "pe_fin"}

\* C26: a worker started by play_macro ends, with self.playing cleared by its
\* finally, whether it ran to the end of its passes, was cancelled by
\* stop_playback or left its loop through an exception.
C26_FiniteReplayEnds ==
    \A w \in Workers : (wpc[w] \in FinitePcs) ~> (wpc[w] = "done" /\ ~playing)

\* The first worker has ended and a second play_macro call has started its
\* worker and returned True.
C26_Witness ==
    /\ wpc[1] = "done"
    /\ wpc[2] \in FinitePcs
    /\ ncalls = 2
    /\ \E c \in SeqCallers : cpc[c] = "returned" /\ cret[c] = "true"

\* -------------------------------------------------- loop replays, scheduled
\* Racing request threads call play_macro_loop and stop_playback; a worker
\* that can take a step of _play_events_loop takes it, and a request thread
\* inside a call goes on to its next statement.
FairLoopEvents == { << Ev("key_press", 1) >> }

LoopStopNext ==
    \/ \E c \in Callers : PlayMacroLoop(c, FairLoopEvents, {1}, {0})
    \/ \E c \in Callers : PlCheck2(c)
    \/ \E c \in Callers : PlSetLoop(c)
    \/ \E c \in Callers : PlSetPlay(c)
    \/ \E c \in Callers : StartStopListener(c)
    \/ \E c \in Callers : PlSpawn(c)
    \/ \E c \in Callers : PlStart(c)
    \/ \E c \in Callers : StopPlayback(c)
    \/ \E c \in Callers : SpLoop(c)
    \/ \E c \in Callers : SpLis(c)
    \/ \E c \in Callers : SpThr(c)
    \/ \E c \in Callers : SpJoin(c)
    \/ \E c \in Callers : Respond(c)
    \/ \E w \in Workers : LpWhile(w)
    \/ \E w \in Workers : LpWhile2(w)
    \/ \E w \in Workers : LpFor(w)
    \/ \E w \in Workers : LpFor2(w)
    \/ \E w \in Workers : LpExec(w)
    \/ \E w \in Workers : LpDly(w)
    \/ \E w \in Workers : LpDly2(w)
    \/ \E w \in Workers : LpFin1(w)
    \/ \E w \in Workers : LpFin2(w)
    \/ \E w \in Workers : LpFin3(w)

SpecLoopFair ==
    /\ Init
    /\ [][LoopStopNext]_vars
    /\ \A w \in Workers :
          /\ WF_vars(LpWhile(w)) /\ WF_vars(LpWhile2(w))
          /\ WF_vars(LpFor(w)) /\ WF_vars(LpFor2(w)) /\ WF_vars(LpExec(w))
          /\ WF_vars(LpDly(w)) /\ WF_vars(LpDly2(w))
          /\ WF_vars(LpFin1(w)) /\ WF_vars(LpFin2(w)) /\ WF_vars(LpFin3(w))
    /\ \A c \in Callers :
          /\ WF_vars(PlCheck2(c)) /\ WF_vars(PlSetLoop(c)) /\ WF_vars(PlSetPlay(c))
          /\ WF_vars(StartStopListener(c)) /\ WF_vars(PlSpawn(c)) /\ WF_vars(PlStart(c))
          /\ WF_vars(SpLoop(c)) /\ WF_vars(SpLis(c)) /\ WF_vars(SpThr(c))
          /\ WF_vars(SpJoin(c))

\* C25: a worker that is running when stop_playback is called ends, and the
\* stop_playback call returns.
C25_StopLiveness ==
    /\ \A c \in Callers : \A w \in Workers :
          (w \in csnap[c]) ~> (wpc[w] = "done")
    /\ \A c \in Callers :
          (cpc[c] \in {"sp_loop", "sp_lis", "sp_thr", "sp_join"}) ~> (cpc[c] = "returned")

\* ------------------------------------------------ the /stop_recording route
\* The rest of the route after `success = recorder.stop_recording()` has
\* returned to request thread c: `if success and recorder.events:` the call
\* of manager.auto_save_macro inside `try: ... except Exception: print`, then
\* the response {success, events, auto_saved}.
StopRecordingRoute(c) ==
    /\ rpc[c] = "returned"
    /\ prevcall[1] = "stop"
    /\ LET success == rret[c] = "true"
       IN  /\ IF success /\ events # << >>
              THEN /\ AutoSaveBody(events)
                   /\ mprev' = mret
                   /\ nmcalls' = nmcalls + 1
              ELSE UNCHANGED << files, mret, mprev, msaved, nmcalls >>
           /\ stop_resp' = [sent |-> TRUE, success |-> success,
                            events |-> IF success THEN events ELSE << >>,
                            auto_saved |-> success /\ Len(events) > 0]
    /\ rpc' = [rpc EXCEPT ![c] = "idle"]
    /\ rret' = [rret EXCEPT ![c] = "none"]
    /\ UNCHANGED << events, recording, start_time, mouse_listener, keyboard_listener,
                    now, lkind, lst, lcb, prevcall, frozen, nrcalls, nnotes >>
    /\ UNCHANGED << mforeign, writable >>
    /\ UNCHANGED pvars

\* The /start_recording route answers {success}.
StartRecordingRoute(c) == prevcall[1] = "start" /\ RecRespond(c)

\* The macros directory stops taking writes (removed, read-only, disk full):
\* from then on open(filepath, 'w') raises OSError.
WritesFail ==
    /\ writable
    /\ writable' = FALSE
    /\ UNCHANGED << files, mret, mprev, msaved, mforeign, stop_resp, nmcalls >>
    /\ UNCHANGED << pvars, rvars >>

\* One client starting and stopping captures; every stop goes through the
\* route, which saves what was captured.
CaptureCalls == 3
CaptureNotes == 2
CaptureTime == 1

CaptureNext ==
    \/ \E c \in SeqCallers : StartRecording(c, CaptureCalls)
    \/ \E c \in SeqCallers : SrClear(c)
    \/ \E c \in SeqCallers : SrSet(c)
    \/ \E c \in SeqCallers : SrTime(c)
    \/ \E c \in SeqCallers : SrMouse(c)
    \/ \E c \in SeqCallers : SrKey(c)
    \/ \E c \in SeqCallers : SrMouseStart(c)
    \/ \E c \in SeqCallers : SrKeyStart(c)
    \/ \E c \in SeqCallers : StartRecordingRoute(c)
    \/ \E c \in SeqCallers : StopRecording(c, CaptureCalls)
    \/ \E c \in SeqCallers : StSet(c)
    \/ \E c \in SeqCallers : StMouse(c)
    \/ \E c \in SeqCallers : StKey(c)
    \/ \E c \in SeqCallers : StopRecordingRoute(c)
    \/ \E l \in RecListeners : OnMouseClick(l, CaptureNotes)
    \/ \E l \in RecListeners : OnKeyPress(l, CaptureNotes)
    \/ \E l \in RecListeners : ReadTimestamp(l)
    \/ \E l \in RecListeners : AppendEvent(l)
    \/ Tick(CaptureTime)
    \/ WritesFail

SpecCapture == Init /\ [][CaptureNext]_vars

\* C30: a /stop_recording response with auto_saved true comes from a call
\* whose auto_save_macro wrote the captured events: the file of the
\* generated name then loads as a record holding the events of the response.
C30_AutoSavedMeansSaved ==
    [][\A c \in SeqCallers :
          (rpc[c] = "returned" /\ rpc'[c] = "idle" /\ stop_resp'.sent
           /\ prevcall[1] = "stop" /\ stop_resp'.auto_saved)
             => /\ mret'.op = "autosave" /\ mret'.status = "ok"
                /\ files'[FilePath(AutoName(now)).stem].exists
                /\ LET r == JsonLoad(files'[FilePath(AutoName(now)).stem].text)
                   IN  r.ok /\ r.val["events"] = stop_resp'.events]_vars

\* The response says auto_saved false when the capture was not active or
\* nothing was captured.
C30_NotSavedCases ==
    [][\A c \in SeqCallers :
          (rpc[c] = "returned" /\ rpc'[c] = "idle" /\ prevcall[1] = "stop"
           /\ (rret[c] # "true" \/ events = << >>))
             => ~stop_resp'.auto_saved /\ files' = files]_vars
====
